---- MODULE Spec2Model ----
(***************************************************************************)
(* Model of the AccelByte Terraform provider: the three resources (match   *)
(* pool, match ruleset, session template), their codecs between the        *)
(* Terraform model and the AccelByte API model, and their CRUD handlers.   *)
(***************************************************************************)
EXTENDS Integers, Sequences, FiniteSets, TLC

(***************************************************************************)
(* Terraform framework values (types.String, types.Bool, types.List,       *)
(* types.Object): null, unknown, or a known value.                         *)
(***************************************************************************)
TFNull == [k |-> "null"]
TFUnknown == [k |-> "unknown"]
TFVal(v) == [k |-> "val", v |-> v]
IsNull(x) == x.k = "null"
IsUnknown(x) == x.k = "unknown"
IsKnown(x) == x.k = "val"
\* basetypes.StringValue.ValueString: "" for null and unknown
ValueString(x) == IF IsKnown(x) THEN x.v ELSE ""
\* basetypes.BoolValue.ValueBool: false for null and unknown
ValueBool(x) == IF IsKnown(x) THEN x.v ELSE FALSE
\* basetypes.Int32Value.ValueInt32: 0 for null and unknown
ValueInt32(x) == IF IsKnown(x) THEN x.v ELSE 0
\* basetypes.ListValue.Elements: no elements for null and unknown
Elements(x) == IF IsKnown(x) THEN x.v ELSE <<>>

(***************************************************************************)
(* Go pointers and slices of the API model: nil, or a value.               *)
(***************************************************************************)
GoNil == [nil |-> TRUE]
GoPtr(v) == [nil |-> FALSE, v |-> v]
IsNil(p) == p.nil
\* ValueStringPointer / ValueInt32Pointer / ValueBoolPointer: nil for null and unknown
ValuePointer(x) == IF IsKnown(x) THEN GoPtr(x.v) ELSE GoNil
\* make([]string, len(l.Elements())) followed by l.ElementsAs(ctx, &slice, false)
ElementsAsSlice(x) == GoPtr(Elements(x))

(***************************************************************************)
(* Bounds and the finite domains the inputs are drawn from.                *)
(***************************************************************************)
MaxListLen == 1

Namespaces == {"ns"}
Names == {"a", "b"}
ListItems == {"x"}

RECURSIVE SeqsUpTo(_, _)
SeqsUpTo(S, n) ==
    IF n = 0 THEN {<<>>}
    ELSE LET shorter == SeqsUpTo(S, n - 1)
         IN shorter \cup {Append(s, e) : s \in {t \in shorter : Len(t) = n - 1}, e \in S}

StringLists == SeqsUpTo(ListItems, MaxListLen)

\* computeMatchPoolId / computeMatchRuleSetId / computeSessionTemplateId
computeMatchPoolId(namespace, name) == namespace \o "/" \o name
computeMatchRuleSetId(namespace, name) == namespace \o "/" \o name
computeSessionTemplateId(namespace, name) == namespace \o "/" \o name

(***************************************************************************)
(* Match pool codec (accelbyte_match_pool_model.go).                       *)
(***************************************************************************)
\* types.ListValueFrom on a Go slice: a nil slice converts to a null list
ListValueFrom(elements) == IF IsNil(elements) THEN TFNull ELSE TFVal(elements.v)

listValueFromEvenIfNil(elements) ==
    IF ~IsNil(elements) THEN ListValueFrom(elements) ELSE ListValueFrom(GoPtr(<<>>))

\* The nil-pointer dereferences of updateFromApiMatchPool: a nil required field panics
updateFromApiMatchPoolPanics(pool) ==
    \/ IsNil(pool.RuleSet)
    \/ IsNil(pool.SessionTemplate)
    \/ IsNil(pool.TicketExpirationSeconds)
    \/ IsNil(pool.AutoAcceptBackfillProposal)
    \/ IsNil(pool.BackfillProposalExpirationSeconds)
    \/ IsNil(pool.BackfillTicketExpirationSeconds)
    \/ IsNil(pool.MatchFunction)

\* Mutation: the override taken from the API alone
MatchFunctionOverrideFromApiAlone(prior, apiOverride) ==
    IF IsNil(apiOverride) THEN TFNull
    ELSE TFVal([backfill_matches |-> TFVal(apiOverride.v.BackfillMatches),
                enrichment |-> listValueFromEvenIfNil(apiOverride.v.Enrichment),
                make_matches |-> TFVal(apiOverride.v.MakeMatches),
                stat_codes |-> listValueFromEvenIfNil(apiOverride.v.StatCodes),
                validation |-> listValueFromEvenIfNil(apiOverride.v.Validation)])

\* Mutation: the override alternates between absent and empty when the API has none
MatchFunctionOverrideFromApiFlipping(prior, apiOverride) ==
    IF ~IsNil(apiOverride) THEN MatchFunctionOverrideFromApiAlone(prior, apiOverride)
    ELSE IF ~IsNull(prior) /\ ~IsUnknown(prior)
    THEN TFNull
    ELSE TFVal([backfill_matches |-> TFVal(""),
                enrichment |-> TFNull,
                make_matches |-> TFVal(""),
                stat_codes |-> TFNull,
                validation |-> TFNull])

\* The match_function_override of the state, from the plan's / prior state's and the API's
MatchFunctionOverrideFromApi(prior, apiOverride) ==
    LET matchFunctionOverrideExistsInPlan == ~IsNull(prior) /\ ~IsUnknown(prior)
        matchFunctionOverrideExistsInApi == ~IsNil(apiOverride)
    IN IF ~matchFunctionOverrideExistsInPlan /\ ~matchFunctionOverrideExistsInApi
       THEN TFNull
       ELSE IF matchFunctionOverrideExistsInApi
            THEN TFVal([backfill_matches |-> TFVal(apiOverride.v.BackfillMatches),
                        enrichment |-> listValueFromEvenIfNil(apiOverride.v.Enrichment),
                        make_matches |-> TFVal(apiOverride.v.MakeMatches),
                        stat_codes |-> listValueFromEvenIfNil(apiOverride.v.StatCodes),
                        validation |-> listValueFromEvenIfNil(apiOverride.v.Validation)])
            ELSE TFVal([backfill_matches |-> TFVal(""),
                        enrichment |-> TFNull,
                        make_matches |-> TFVal(""),
                        stat_codes |-> TFNull,
                        validation |-> TFNull])

updateFromApiMatchPool(data, pool) ==
    [data EXCEPT
        !.rule_set = TFVal(pool.RuleSet.v),
        !.session_template = TFVal(pool.SessionTemplate.v),
        !.ticket_expiration_seconds = TFVal(pool.TicketExpirationSeconds.v),
        !.best_latency_calculation_method = TFVal(pool.BestLatencyCalculationMethod),
        !.auto_accept_backfill_proposal = TFVal(pool.AutoAcceptBackfillProposal.v),
        !.backfill_proposal_expiration_seconds = TFVal(pool.BackfillProposalExpirationSeconds.v),
        !.backfill_ticket_expiration_seconds = TFVal(pool.BackfillTicketExpirationSeconds.v),
        !.match_function = TFVal(pool.MatchFunction.v),
        !.match_function_override =
            MatchFunctionOverrideFromApi(data.match_function_override, pool.MatchFunctionOverride),
        !.crossplay_enabled = TFVal(~pool.CrossplayDisabled),
        !.platform_group_enabled = TFVal(pool.PlatformGroupEnabled)]

toApiMatchFunctionOverride(matchFunctionOverride) ==
    LET m == matchFunctionOverride.v
    IN GoPtr([BackfillMatches |-> ValueString(m.backfill_matches),
              Enrichment |-> ElementsAsSlice(m.enrichment),
              MakeMatches |-> ValueString(m.make_matches),
              StatCodes |-> ElementsAsSlice(m.stat_codes),
              Validation |-> ElementsAsSlice(m.validation)])

\* The body of the create call (APIMatchPool)
toApiMatchPool(data) ==
    [Name |-> ValuePointer(data.name),
     RuleSet |-> ValuePointer(data.rule_set),
     SessionTemplate |-> ValuePointer(data.session_template),
     TicketExpirationSeconds |-> ValuePointer(data.ticket_expiration_seconds),
     BestLatencyCalculationMethod |-> ValueString(data.best_latency_calculation_method),
     AutoAcceptBackfillProposal |-> ValuePointer(data.auto_accept_backfill_proposal),
     BackfillProposalExpirationSeconds |-> ValuePointer(data.backfill_proposal_expiration_seconds),
     BackfillTicketExpirationSeconds |-> ValuePointer(data.backfill_ticket_expiration_seconds),
     MatchFunction |-> ValuePointer(data.match_function),
     MatchFunctionOverride |->
        IF ~IsNull(data.match_function_override) /\ ~IsUnknown(data.match_function_override)
        THEN toApiMatchFunctionOverride(data.match_function_override)
        ELSE GoNil,
     CrossplayDisabled |-> ~ValueBool(data.crossplay_enabled),
     PlatformGroupEnabled |-> ValueBool(data.platform_group_enabled)]

\* Mutation: the update body built as the create body is
toApiMatchPoolConfigWithName(data) == toApiMatchPool(data)

\* The body of the update call (APIMatchPoolConfig): no Name field
toApiMatchPoolConfig(data) ==
    [RuleSet |-> ValuePointer(data.rule_set),
     SessionTemplate |-> ValuePointer(data.session_template),
     TicketExpirationSeconds |-> ValuePointer(data.ticket_expiration_seconds),
     BestLatencyCalculationMethod |-> ValueString(data.best_latency_calculation_method),
     AutoAcceptBackfillProposal |-> ValuePointer(data.auto_accept_backfill_proposal),
     BackfillProposalExpirationSeconds |-> ValuePointer(data.backfill_proposal_expiration_seconds),
     BackfillTicketExpirationSeconds |-> ValuePointer(data.backfill_ticket_expiration_seconds),
     MatchFunction |-> ValuePointer(data.match_function),
     MatchFunctionOverride |->
        IF ~IsNull(data.match_function_override) /\ ~IsUnknown(data.match_function_override)
        THEN toApiMatchFunctionOverride(data.match_function_override)
        ELSE GoNil,
     CrossplayDisabled |-> ~ValueBool(data.crossplay_enabled),
     PlatformGroupEnabled |-> ValueBool(data.platform_group_enabled)]

(***************************************************************************)
(* encoding/json on the JSON-blob attributes: the values json.Unmarshal     *)
(* builds in an interface{} (nil, float64, string, []interface{},          *)
(* map[string]interface{}) and the text json.Marshal writes for them       *)
(* (compact, the keys of a map sorted).                                    *)
(***************************************************************************)
JsonNull == [j |-> "null"]
JsonNumber(n) == [j |-> "number", n |-> n]
JsonString(s) == [j |-> "string", s |-> s]
JsonArray(items) == [j |-> "array", items |-> items]
\* A map: its keys, and the value of each
JsonObject(keys, values) == [j |-> "object", keys |-> keys, values |-> values]

JsonValidTexts ==
    {"{\"a\":1}", "{ \"a\" : 1 }", "{\"b\":2,\"a\":1}", "[1,2]", "\"s\"", "1.0", "null"}
JsonInvalidTexts == {"", "{", "{\"a\":}"}
JsonTexts == JsonValidTexts \cup JsonInvalidTexts

\* json.Unmarshal([]byte(text), &v): the error, and the value parsed
JsonUnmarshal(text) ==
    CASE text \in {"{\"a\":1}", "{ \"a\" : 1 }"} ->
            [err |-> FALSE, v |-> JsonObject({"a"}, [k \in {"a"} |-> JsonNumber(1)])]
      [] text \in {"{\"b\":2,\"a\":1}", "{\"a\":1,\"b\":2}"} ->
            [err |-> FALSE,
             v |-> JsonObject({"a", "b"},
                              [k \in {"a", "b"} |-> JsonNumber(IF k = "a" THEN 1 ELSE 2)])]
      [] text = "[1,2]" -> [err |-> FALSE, v |-> JsonArray(<<JsonNumber(1), JsonNumber(2)>>)]
      [] text = "\"s\"" -> [err |-> FALSE, v |-> JsonString("s")]
      [] text \in {"1.0", "1"} -> [err |-> FALSE, v |-> JsonNumber(1)]
      [] text = "null" -> [err |-> FALSE, v |-> JsonNull]
      [] OTHER -> [err |-> TRUE, v |-> JsonNull]

\* The keys of the maps above, in the order json.Marshal sorts them
JsonSortedKeys == <<"a", "b">>

RECURSIVE JsonMarshal(_)
RECURSIVE JsonMarshalItems(_, _)
RECURSIVE JsonMarshalMembers(_, _, _)
\* The items of an array from the i-th on, separated by commas
JsonMarshalItems(items, i) ==
    IF i > Len(items) THEN ""
    ELSE (IF i > 1 THEN "," ELSE "") \o JsonMarshal(items[i]) \o JsonMarshalItems(items, i + 1)

\* The members of a map whose keys are the i-th sorted key and those after it
JsonMarshalMembers(object, i, first) ==
    IF i > Len(JsonSortedKeys) THEN ""
    ELSE IF JsonSortedKeys[i] \notin object.keys
    THEN JsonMarshalMembers(object, i + 1, first)
    ELSE (IF first THEN "" ELSE ",")
         \o "\"" \o JsonSortedKeys[i] \o "\":" \o JsonMarshal(object.values[JsonSortedKeys[i]])
         \o JsonMarshalMembers(object, i + 1, FALSE)

\* Mutation: only strings are written, every other value as null
JsonMarshalStringsOnly(v) == IF v.j = "string" THEN "\"" \o v.s \o "\"" ELSE "null"

\* json.Marshal(v) of a value json.Unmarshal produced: never an error
JsonMarshal(v) ==
    CASE v.j = "null" -> "null"
      [] v.j = "number" -> ToString(v.n)
      [] v.j = "string" -> "\"" \o v.s \o "\""
      [] v.j = "array" -> "[" \o JsonMarshalItems(v.items, 1) \o "]"
      [] v.j = "object" -> "{" \o JsonMarshalMembers(v, 1, TRUE) \o "}"

(***************************************************************************)
(* Match ruleset codec.                                                    *)
(***************************************************************************)
updateFromApiMatchRuleSetPanics(matchRuleSet) == IsNil(matchRuleSet.EnableCustomMatchFunction)

updateFromApiMatchRuleSet(data, matchRuleSet) ==
    [data EXCEPT
        !.enable_custom_match_function = TFVal(matchRuleSet.EnableCustomMatchFunction.v),
        !.configuration = TFVal(JsonMarshal(matchRuleSet.Data))]

\* toApiMatchRuleSet without the check of the parse error (a mutant of the encoder)
toApiMatchRuleSetUnchecked(data) ==
    [err |-> FALSE,
     body |-> [Name |-> ValuePointer(data.name),
               EnableCustomMatchFunction |-> ValuePointer(data.enable_custom_match_function),
               Data |-> JsonUnmarshal(ValueString(data.configuration)).v]]

\* toApiMatchRuleSet: err, and the payload (used by Create and by Update)
toApiMatchRuleSet(data) ==
    LET parsed == JsonUnmarshal(ValueString(data.configuration))
    IN IF parsed.err
       THEN [err |-> TRUE, body |-> GoNil]
       ELSE [err |-> FALSE,
             body |-> [Name |-> ValuePointer(data.name),
                       EnableCustomMatchFunction |-> ValuePointer(data.enable_custom_match_function),
                       Data |-> parsed.v]]

(***************************************************************************)
(* Session template codec (accelbyte_session_template_model.go).           *)
(***************************************************************************)
AccelByteSessionTemplateServerTypeNone == "NONE"
AccelByteSessionTemplateServerTypeP2P == "P2P"
AccelByteSessionTemplateServerTypeDS == "DS"
AccelByteSessionTemplateDsSourceNone == ""
AccelByteSessionTemplateDsSourceAms == "AMS"
AccelByteSessionTemplateDsSourceCustom == "custom"

\* The p2p_server object: a model without attributes of its own
AccelByteSessionTemplateP2pServerModel == [p2p |-> TRUE]

\* Mutation: each flag read from the bit above its own
BitSetShifted(flag, mask) == (flag \div (2 * mask)) % 2 = 1

\* (flag & mask) != 0 for a power of two mask and a non-negative flag
BitSet(flag, mask) == (flag \div mask) % 2 = 1

updateFromApiSessionTemplatePanics(t) ==
    \/ IsNil(t.MinPlayers)
    \/ IsNil(t.MaxPlayers)
    \/ IsNil(t.Joinability)
    \/ IsNil(t.InviteTimeout)
    \/ IsNil(t.InactiveTimeout)
    \/ IsNil(t.Type)
    \/ IsNil(t.TextChat)

\* custom_session_function, decoded from GrpcSessionConfig
CustomSessionFunctionFromApi(grpc) ==
    IF ~IsNil(grpc) /\ ~IsNil(grpc.v.FunctionFlag)
    THEN TFVal([custom_url |-> TFVal(grpc.v.CustomURL),
                extend_app |-> TFVal(grpc.v.AppName),
                on_session_created |-> TFVal(BitSet(grpc.v.FunctionFlag.v, 1)),
                on_session_updated |-> TFVal(BitSet(grpc.v.FunctionFlag.v, 2)),
                on_session_deleted |-> TFVal(BitSet(grpc.v.FunctionFlag.v, 4)),
                on_party_created |-> TFVal(BitSet(grpc.v.FunctionFlag.v, 8)),
                on_party_updated |-> TFVal(BitSet(grpc.v.FunctionFlag.v, 16)),
                on_party_deleted |-> TFVal(BitSet(grpc.v.FunctionFlag.v, 32))])
    ELSE TFNull

\* p2p_server, ams_server, custom_server decoded from the discriminator pair
P2pServerFromApi(t) ==
    IF t.Type.v = AccelByteSessionTemplateServerTypeP2P
    THEN TFVal(AccelByteSessionTemplateP2pServerModel) ELSE TFNull

\* Mutation: ams_server decoded whatever the discriminator pair says
AmsServerFromApiUnconditional(t) ==
    TFVal([requested_regions |-> ListValueFrom(t.RequestedRegions),
           preferred_claim_keys |-> ListValueFrom(t.PreferredClaimKeys),
           fallback_claim_keys |-> ListValueFrom(t.FallbackClaimKeys)])

AmsServerFromApi(t) ==
    IF /\ t.Type.v # AccelByteSessionTemplateServerTypeP2P
       /\ t.Type.v = AccelByteSessionTemplateServerTypeDS
       /\ t.DsSource = AccelByteSessionTemplateDsSourceAms
    THEN TFVal([requested_regions |-> ListValueFrom(t.RequestedRegions),
                preferred_claim_keys |-> ListValueFrom(t.PreferredClaimKeys),
                fallback_claim_keys |-> ListValueFrom(t.FallbackClaimKeys)])
    ELSE TFNull

CustomServerFromApi(t) ==
    IF /\ t.Type.v # AccelByteSessionTemplateServerTypeP2P
       /\ ~(t.Type.v = AccelByteSessionTemplateServerTypeDS
            /\ t.DsSource = AccelByteSessionTemplateDsSourceAms)
       /\ t.Type.v = AccelByteSessionTemplateServerTypeDS
       /\ t.DsSource = AccelByteSessionTemplateDsSourceCustom
    THEN TFVal([custom_url |-> TFVal(t.CustomURLGRPC), extend_app |-> TFVal(t.AppName)])
    ELSE TFNull

updateFromApiSessionTemplate(data, t) ==
    [data EXCEPT
        !.min_players = TFVal(t.MinPlayers.v),
        !.max_players = TFVal(t.MaxPlayers.v),
        !.joinability = TFVal(t.Joinability.v),
        !.max_active_sessions = TFVal(t.MaxActiveSessions),
        !.custom_session_function = CustomSessionFunctionFromApi(t.GrpcSessionConfig),
        !.invite_timeout = TFVal(t.InviteTimeout.v),
        !.inactive_timeout = TFVal(t.InactiveTimeout.v),
        !.leader_election_grace_period = TFVal(t.LeaderElectionGracePeriod),
        !.p2p_server = P2pServerFromApi(t),
        !.ams_server = AmsServerFromApi(t),
        !.custom_server = CustomServerFromApi(t),
        !.auto_join_session = TFVal(t.AutoJoin),
        !.chat_room = TFVal(t.TextChat.v),
        !.secret_validation = TFVal(t.EnableSecret),
        !.generate_code = TFVal(~t.DisableCodeGeneration),
        !.immutable_session_storage = TFVal(t.ImmutableStorage),
        !.manual_set_ready_for_ds = TFVal(t.DsManualSetReady),
        !.tied_teams_session_lifetime = TFVal(t.TieTeamsSessionLifetime),
        !.auto_leave_session = TFVal(t.AutoLeaveSession),
        !.custom_attributes = TFVal(JsonMarshal(t.Attributes))]

toModelsExtendConfiguration(customSessionFunction) ==
    LET m == customSessionFunction.v
        functionFlag ==
            (IF ValueBool(m.on_session_created) THEN 1 ELSE 0)
          + (IF ValueBool(m.on_session_updated) THEN 2 ELSE 0)
          + (IF ValueBool(m.on_session_deleted) THEN 4 ELSE 0)
          + (IF ValueBool(m.on_party_created) THEN 8 ELSE 0)
          + (IF ValueBool(m.on_party_updated) THEN 16 ELSE 0)
          + (IF ValueBool(m.on_party_deleted) THEN 32 ELSE 0)
    IN GoPtr([CustomURL |-> ValueString(m.custom_url),
              AppName |-> ValueString(m.extend_app),
              FunctionFlag |-> GoPtr(functionFlag)])

Populated(obj) == ~IsNull(obj) /\ ~IsUnknown(obj)

\* The number of server variants a configuration or a model populates
PopulatedVariants(data) ==
    Cardinality({i \in 1..3 :
        Populated(<<data.p2p_server, data.ams_server, data.custom_server>>[i])})

\* serverType after the three "Handle ... server" blocks, each overwriting the one before
EncodedServerType(data) ==
    IF Populated(data.custom_server) THEN AccelByteSessionTemplateServerTypeDS
    ELSE IF Populated(data.ams_server) THEN AccelByteSessionTemplateServerTypeDS
    ELSE IF Populated(data.p2p_server) THEN AccelByteSessionTemplateServerTypeP2P
    ELSE AccelByteSessionTemplateServerTypeNone

\* Mutation: no variant sets the source
EncodedDsSourceUnset(data) == AccelByteSessionTemplateDsSourceNone

EncodedDsSource(data) ==
    IF Populated(data.custom_server) THEN AccelByteSessionTemplateDsSourceCustom
    ELSE IF Populated(data.ams_server) THEN AccelByteSessionTemplateDsSourceAms
    ELSE AccelByteSessionTemplateDsSourceNone

\* The request both toApiSessionTemplate and toApiSessionTemplateConfig build: the two
\* functions set the same fields, Name included
ApiSessionTemplateRequest(data, attributes) ==
    [Name |-> ValuePointer(data.name),
     MinPlayers |-> ValuePointer(data.min_players),
     MaxPlayers |-> ValuePointer(data.max_players),
     Joinability |-> ValuePointer(data.joinability),
     MaxActiveSessions |-> ValueInt32(data.max_active_sessions),
     GrpcSessionConfig |->
        IF Populated(data.custom_session_function)
        THEN toModelsExtendConfiguration(data.custom_session_function)
        ELSE GoNil,
     InviteTimeout |-> ValuePointer(data.invite_timeout),
     InactiveTimeout |-> ValuePointer(data.inactive_timeout),
     LeaderElectionGracePeriod |-> ValueInt32(data.leader_election_grace_period),
     Type |-> GoPtr(EncodedServerType(data)),
     DsSource |-> EncodedDsSource(data),
     RequestedRegions |->
        IF Populated(data.ams_server)
        THEN ElementsAsSlice(data.ams_server.v.requested_regions) ELSE GoNil,
     PreferredClaimKeys |->
        IF Populated(data.ams_server)
        THEN ElementsAsSlice(data.ams_server.v.preferred_claim_keys) ELSE GoNil,
     FallbackClaimKeys |->
        IF Populated(data.ams_server)
        THEN ElementsAsSlice(data.ams_server.v.fallback_claim_keys) ELSE GoNil,
     CustomURLGRPC |->
        IF Populated(data.custom_server)
        THEN ValueString(data.custom_server.v.custom_url) ELSE "",
     AppName |->
        IF Populated(data.custom_server)
        THEN ValueString(data.custom_server.v.extend_app) ELSE "",
     AutoJoin |-> ValueBool(data.auto_join_session),
     TextChat |-> ValuePointer(data.chat_room),
     EnableSecret |-> ValueBool(data.secret_validation),
     DisableCodeGeneration |-> ~ValueBool(data.generate_code),
     ImmutableStorage |-> ValueBool(data.immutable_session_storage),
     DsManualSetReady |-> ValueBool(data.manual_set_ready_for_ds),
     TieTeamsSessionLifetime |-> ValueBool(data.tied_teams_session_lifetime),
     AutoLeaveSession |-> ValueBool(data.auto_leave_session),
     Attributes |-> attributes]

\* Mutation: an unset custom_attributes encoded as the JSON null
toApiSessionTemplateNullAsJsonNull(data) ==
    LET parsed == JsonUnmarshal(ValueString(data.custom_attributes))
    IN IF IsNull(data.custom_attributes)
       THEN [err |-> FALSE, body |-> ApiSessionTemplateRequest(data, JsonNull)]
       ELSE IF parsed.err
       THEN [err |-> TRUE, body |-> GoNil]
       ELSE [err |-> FALSE, body |-> ApiSessionTemplateRequest(data, parsed.v)]

\* toApiSessionTemplate: err, and the body of the create call
toApiSessionTemplate(data) ==
    LET parsed == JsonUnmarshal(ValueString(data.custom_attributes))
    IN IF parsed.err
       THEN [err |-> TRUE, body |-> GoNil]
       ELSE [err |-> FALSE, body |-> ApiSessionTemplateRequest(data, parsed.v)]

\* toApiSessionTemplateConfig: err, and the body of the update call
toApiSessionTemplateConfig(data) ==
    LET parsed == JsonUnmarshal(ValueString(data.custom_attributes))
    IN IF parsed.err
       THEN [err |-> TRUE, body |-> GoNil]
       ELSE [err |-> FALSE, body |-> ApiSessionTemplateRequest(data, parsed.v)]

(***************************************************************************)
(* State of one resource instance and of the backend entity it manages.    *)
(***************************************************************************)
VARIABLES
    rkind,      \* the resource type of this instance
    remote,     \* the backend: NoEntity, or the entity and the API model it serves
    tfstate,    \* the Terraform state of the instance: NoState, or its model
    diags,      \* summaries of the error diagnostics of the last operation
    calls,      \* the remote calls (and sleeps) of the last operation, in order
    dsstate,    \* the state the data source of this kind produced: NoState, or its model
    provider,   \* the provider of this process: its configuration and what it hands out
    op,         \* the last operation: its name and the configuration it was given
    codec       \* the codec functions applied to drawn inputs (CodecSpec)

vars == <<rkind, remote, tfstate, diags, calls, dsstate, provider, op, codec>>

Kinds == {"match_pool", "match_ruleset", "session_template"}

NoEntity == [exists |-> FALSE]
Entity(namespace, name, body) ==
    [exists |-> TRUE, namespace |-> namespace, name |-> name, body |-> body]
NoState == [tracked |-> FALSE]
State(data) == [tracked |-> TRUE, data |-> data]
NoConfig == [none |-> TRUE]
CodecIdle == [fn |-> "idle"]

\* Wait this many seconds after any write operation to the AB API
CACHE_INVALIDATION_DELAY_SECONDS == 20

Found(namespace, name) ==
    remote.exists /\ remote.namespace = namespace /\ remote.name = name

\* Results of the SDK's calls: how each can end against the backend
ErrNone == [status |-> 200]
ErrNotFound == [status |-> 404]
ErrOther == [status |-> 500]
GetResults(namespace, name) ==
    IF Found(namespace, name) THEN {ErrNone, ErrOther} ELSE {ErrNotFound, ErrOther}
CreateResults(namespace, name) ==
    IF Found(namespace, name) THEN {ErrOther} ELSE {ErrNone, ErrOther}
UpdateResults(namespace, name) == GetResults(namespace, name)
DeleteResults(namespace, name) == GetResults(namespace, name)

\* Mutations of the not-found tests: a test that never matches, one that always does
ErrorTextHas404Never(err) == FALSE
ErrorTextHas404Always(err) == TRUE
ErrorIsNotFoundNever(err) == FALSE
ErrorIsNotFoundAlways(err) == TRUE

\* strings.Contains(err.Error(), "error 404:")
ErrorTextHas404(err) == err.status = 404
\* errors.As(err, &...NotFound{})
ErrorIsNotFound(err) == err.status = 404

Call(api, namespace, key, body, err) ==
    [api |-> api, namespace |-> namespace, key |-> key, body |-> body, err |-> err]
\* Mutation: no wait at all
SleepSkipped == [api |-> "time.Sleep", seconds |-> 0]
Sleep == [api |-> "time.Sleep", seconds |-> CACHE_INVALIDATION_DELAY_SECONDS]

\* resource.ImportStatePassthroughID(ctx, path.Root("id"), req, resp): the state holds
\* the id and nothing else
ImportPending == tfstate.tracked /\ op.name = "ImportState"

(***************************************************************************)
(* Match pool: configurations, plans, and the backend's view of a pool.    *)
(***************************************************************************)
MatchFunctionOverrideConfigs ==
    {TFNull,
     TFVal([backfill_matches |-> TFVal("bf"), enrichment |-> TFNull, make_matches |-> TFNull,
            stat_codes |-> TFNull, validation |-> TFNull])} \cup
    {TFVal([backfill_matches |-> TFNull, enrichment |-> e, make_matches |-> TFNull,
            stat_codes |-> TFNull, validation |-> TFNull]) :
        e \in {TFNull} \cup {TFVal(l) : l \in StringLists}}

MatchPoolConfigs ==
    {[namespace |-> TFVal(ns), name |-> TFVal(n), id |-> TFNull,
      rule_set |-> TFVal("rs"), session_template |-> TFVal("st"),
      ticket_expiration_seconds |-> TFNull,
      best_latency_calculation_method |-> TFNull,
      auto_accept_backfill_proposal |-> TFNull,
      backfill_proposal_expiration_seconds |-> TFNull,
      backfill_ticket_expiration_seconds |-> TFNull,
      match_function |-> TFNull,
      match_function_override |-> o,
      crossplay_enabled |-> TFNull,
      platform_group_enabled |-> TFNull] :
        ns \in Namespaces, n \in Names, o \in MatchFunctionOverrideConfigs}

\* An Optional+Computed attribute with a Default: the default when unconfigured
WithDefault(v, default) == IF IsNull(v) THEN TFVal(default) ELSE v
\* An Optional+Computed attribute without a Default: unknown when unconfigured
ComputedIfNull(v) == IF IsNull(v) THEN TFUnknown ELSE v

\* The plan the framework derives from a configuration under the resource's schema
MatchPoolPlan(config, id) ==
    [config EXCEPT
        !.id = id,
        !.ticket_expiration_seconds = WithDefault(@, 300),
        !.best_latency_calculation_method = WithDefault(@, ""),
        !.auto_accept_backfill_proposal = WithDefault(@, FALSE),
        !.backfill_proposal_expiration_seconds = WithDefault(@, 30),
        !.backfill_ticket_expiration_seconds = WithDefault(@, 300),
        !.match_function = WithDefault(@, "default"),
        !.match_function_override =
            IF IsNull(@) THEN TFUnknown
            ELSE TFVal([backfill_matches |-> WithDefault(@.v.backfill_matches, ""),
                        enrichment |-> WithDefault(@.v.enrichment, <<>>),
                        make_matches |-> WithDefault(@.v.make_matches, ""),
                        stat_codes |-> WithDefault(@.v.stat_codes, <<>>),
                        validation |-> WithDefault(@.v.validation, <<>>)]),
        !.crossplay_enabled = WithDefault(@, FALSE),
        !.platform_group_enabled = WithDefault(@, FALSE)]

NilIfEmpty(slice) == IF ~IsNil(slice) /\ slice.v = <<>> THEN GoNil ELSE slice

MatchFunctionOverrideIsEmpty(o) ==
    /\ o.BackfillMatches = "" /\ o.MakeMatches = ""
    /\ Elements(ListValueFrom(o.Enrichment)) = <<>>
    /\ Elements(ListValueFrom(o.StatCodes)) = <<>>
    /\ Elements(ListValueFrom(o.Validation)) = <<>>

\* The pool the backend serves after a write of body: "the API will prefer to return
\* null instead of an empty object", and may serve an empty list as an absent one
ServerMatchPool(body, name, dropEmpty, nilLists) ==
    LET o == body.MatchFunctionOverride
        lists == IF IsNil(o) \/ ~nilLists THEN o
                 ELSE GoPtr([o.v EXCEPT !.Enrichment = NilIfEmpty(@),
                                        !.StatCodes = NilIfEmpty(@),
                                        !.Validation = NilIfEmpty(@)])
        served == IF ~IsNil(o) /\ dropEmpty /\ MatchFunctionOverrideIsEmpty(o.v)
                  THEN GoNil ELSE lists
    IN [Name |-> GoPtr(name),
        RuleSet |-> body.RuleSet,
        SessionTemplate |-> body.SessionTemplate,
        TicketExpirationSeconds |-> body.TicketExpirationSeconds,
        BestLatencyCalculationMethod |-> body.BestLatencyCalculationMethod,
        AutoAcceptBackfillProposal |-> body.AutoAcceptBackfillProposal,
        BackfillProposalExpirationSeconds |-> body.BackfillProposalExpirationSeconds,
        BackfillTicketExpirationSeconds |-> body.BackfillTicketExpirationSeconds,
        MatchFunction |-> body.MatchFunction,
        MatchFunctionOverride |-> served,
        CrossplayDisabled |-> body.CrossplayDisabled,
        PlatformGroupEnabled |-> body.PlatformGroupEnabled]

\* A response in which a field the decoders dereference is nil
ResponseWithout(response, field) == [response EXCEPT ![field] = GoNil]

ServerMatchPools(body, name) ==
    {ServerMatchPool(body, name, d, l) : d \in BOOLEAN, l \in BOOLEAN}
    \cup {ResponseWithout(ServerMatchPool(body, name, FALSE, FALSE), "RuleSet")}

(***************************************************************************)
(* The handlers of AccelByteMatchPoolResource.                             *)
(***************************************************************************)
\* What a handler leaves behind: the backend, the state, the diagnostics, the calls
Outcome(newRemote, newState, newDiags, newCalls, name, config) ==
    /\ remote' = newRemote
    /\ tfstate' = newState
    /\ diags' = newDiags
    /\ calls' = newCalls
    /\ op' = [name |-> name, config |-> config]
    /\ UNCHANGED <<rkind, codec, dsstate, provider>>

PluginCrash == "Plugin did not respond"

MatchPoolCreate ==
    /\ rkind = "match_pool"
    /\ ~tfstate.tracked
    /\ \E config \in MatchPoolConfigs :
        LET plan == MatchPoolPlan(config, TFUnknown)
            namespace == ValueString(plan.namespace)
            name == ValueString(plan.name)
            data == [plan EXCEPT !.id = TFVal(computeMatchPoolId(namespace, name))]
            apiMatchPool == toApiMatchPool(data)
        IN \E createErr \in CreateResults(namespace, name) :
            LET createCall == Call("CreateMatchPoolShort", namespace, "", apiMatchPool, createErr)
            IN IF createErr # ErrNone
               THEN Outcome(remote, tfstate,
                            {"Error when creating match pool via AccelByte API"},
                            <<createCall>>, "Create", config)
               ELSE \E pool \in ServerMatchPools(apiMatchPool, name), readErr \in {ErrNone, ErrOther} :
                    LET readCall == Call("MatchPoolDetailsShort", namespace, name, GoNil, readErr)
                        made == <<createCall, Sleep, readCall>>
                        created == Entity(namespace, name, pool)
                    IN IF readErr # ErrNone
                       THEN Outcome(created, tfstate,
                                    {"Error when reading match pool via AccelByte API"},
                                    made, "Create", config)
                       ELSE IF updateFromApiMatchPoolPanics(pool)
                       THEN Outcome(created, tfstate, {PluginCrash}, made, "Create", config)
                       ELSE Outcome(created, State(updateFromApiMatchPool(data, pool)),
                                    {}, made, "Create", config)

MatchPoolRead ==
    /\ rkind = "match_pool"
    /\ tfstate.tracked
    /\ LET data == tfstate.data
           namespace == ValueString(data.namespace)
           name == ValueString(data.name)
       IN \E err \in GetResults(namespace, name) :
           LET made == <<Call("MatchPoolDetailsShort", namespace, name, GoNil, err)>>
           IN IF err # ErrNone
              THEN IF ErrorTextHas404(err)
                   THEN Outcome(remote, NoState, {}, made, "Read", NoConfig)
                   ELSE Outcome(remote, tfstate,
                                {"Error when reading match pool via AccelByte API"},
                                made, "Read", NoConfig)
              ELSE IF updateFromApiMatchPoolPanics(remote.body)
              THEN Outcome(remote, tfstate, {PluginCrash}, made, "Read", NoConfig)
              ELSE Outcome(remote, State(updateFromApiMatchPool(data, remote.body)),
                           {}, made, "Read", NoConfig)

\* Mutation: an update planned whatever namespace and name the configuration has
SameIdentityNotRequired(config) == tfstate.tracked

\* An update is planned for a tracked resource whose namespace and name the
\* configuration keeps (a change of either plans a replacement: RequiresReplace)
SameIdentity(config) ==
    /\ tfstate.tracked
    /\ config.namespace = tfstate.data.namespace
    /\ config.name = tfstate.data.name

MatchPoolUpdate ==
    /\ rkind = "match_pool"
    /\ ~ImportPending
    /\ \E config \in MatchPoolConfigs :
        /\ SameIdentity(config)
        /\ LET data == MatchPoolPlan(config, tfstate.data.id)
               namespace == ValueString(data.namespace)
               name == ValueString(data.name)
               apiMatchPoolConfig == toApiMatchPoolConfig(data)
           IN \E err \in UpdateResults(namespace, name) :
               LET updateCall == Call("UpdateMatchPoolShort", namespace, name, apiMatchPoolConfig, err)
               IN IF err # ErrNone
                  THEN IF ErrorIsNotFound(err)
                       THEN Outcome(remote, tfstate, {"Resource not found"},
                                    <<updateCall>>, "Update", config)
                       ELSE Outcome(remote, tfstate,
                                    {"Error when updating match pool via AccelByte API"},
                                    <<updateCall>>, "Update", config)
                  ELSE \E apiMatchPool \in ServerMatchPools(apiMatchPoolConfig, name) :
                       LET updated == Entity(namespace, name, apiMatchPool)
                       IN IF updateFromApiMatchPoolPanics(apiMatchPool)
                          THEN Outcome(updated, tfstate, {PluginCrash},
                                       <<updateCall, Sleep>>, "Update", config)
                          ELSE Outcome(updated, State(updateFromApiMatchPool(data, apiMatchPool)),
                                       {}, <<updateCall, Sleep>>, "Update", config)

\* Mutation: a Delete that issues its call again after a failure
MatchPoolDeleteRetrying ==
    /\ rkind = "match_pool"
    /\ tfstate.tracked
    /\ ~ImportPending
    /\ LET namespace == ValueString(tfstate.data.namespace)
           name == ValueString(tfstate.data.name)
       IN \E err \in DeleteResults(namespace, name) :
           LET deleteCall == Call("DeleteMatchPoolShort", namespace, name, GoNil, err)
           IN IF err # ErrNone
              THEN Outcome(remote, tfstate,
                           {"Error when deleting match pool via AccelByte API"},
                           <<deleteCall, deleteCall>>, "Delete", NoConfig)
              ELSE Outcome(NoEntity, NoState, {}, <<deleteCall, Sleep>>, "Delete", NoConfig)

\* After a Delete without error diagnostics the framework removes the resource from state
MatchPoolDelete ==
    /\ rkind = "match_pool"
    /\ tfstate.tracked
    /\ ~ImportPending
    /\ LET namespace == ValueString(tfstate.data.namespace)
           name == ValueString(tfstate.data.name)
       IN \E err \in DeleteResults(namespace, name) :
           LET deleteCall == Call("DeleteMatchPoolShort", namespace, name, GoNil, err)
           IN IF err # ErrNone
              THEN Outcome(remote, tfstate,
                           {"Error when deleting match pool via AccelByte API"},
                           <<deleteCall>>, "Delete", NoConfig)
              ELSE Outcome(NoEntity, NoState, {}, <<deleteCall, Sleep>>, "Delete", NoConfig)

\* The state ImportStatePassthroughID leaves: the id, every other attribute null
ImportedState(config, id) ==
    State([f \in DOMAIN config |-> IF f = "id" THEN TFVal(id) ELSE TFNull])

MatchPoolImportState ==
    /\ rkind = "match_pool"
    /\ ~tfstate.tracked
    /\ \E namespace \in Namespaces, name \in Names :
        Outcome(remote,
                ImportedState(CHOOSE c \in MatchPoolConfigs : TRUE,
                              computeMatchPoolId(namespace, name)),
                {}, <<>>, "ImportState", NoConfig)

(***************************************************************************)
(* Match ruleset: configurations, plans, the backend's view, the handlers  *)
(* of AccelByteMatchRuleSetResource.                                       *)
(***************************************************************************)
MatchRuleSetConfigurations == {"{\"a\":1}", "{\"b\":2,\"a\":1}", "{"}

MatchRuleSetConfigs ==
    {[namespace |-> TFVal(ns), name |-> TFVal(n), id |-> TFNull,
      enable_custom_match_function |-> e, configuration |-> TFVal(c)] :
        ns \in Namespaces, n \in Names, e \in {TFNull, TFVal(TRUE)},
        c \in MatchRuleSetConfigurations}

MatchRuleSetPlan(config, id) ==
    [config EXCEPT !.id = id, !.enable_custom_match_function = WithDefault(@, FALSE)]

\* The ruleset the backend serves after a write of body
ServerMatchRuleSet(body, name) ==
    [Name |-> GoPtr(name),
     EnableCustomMatchFunction |-> body.EnableCustomMatchFunction,
     Data |-> body.Data]

ServerMatchRuleSets(body, name) ==
    {ServerMatchRuleSet(body, name),
     ResponseWithout(ServerMatchRuleSet(body, name), "EnableCustomMatchFunction")}

MatchRuleSetCreate ==
    /\ rkind = "match_ruleset"
    /\ ~tfstate.tracked
    /\ \E config \in MatchRuleSetConfigs :
        LET plan == MatchRuleSetPlan(config, TFUnknown)
            namespace == ValueString(plan.namespace)
            name == ValueString(plan.name)
            data == [plan EXCEPT !.id = TFVal(computeMatchRuleSetId(namespace, name))]
            apiMatchRuleSet == toApiMatchRuleSet(data)
        IN IF apiMatchRuleSet.err
           THEN Outcome(remote, tfstate,
                        {"Error when converting our internal state to an AccelByte API match ruleset"},
                        <<>>, "Create", config)
           ELSE \E createErr \in CreateResults(namespace, name) :
            LET createCall == Call("CreateRuleSetShort", namespace, "", apiMatchRuleSet.body, createErr)
            IN IF createErr # ErrNone
               THEN Outcome(remote, tfstate,
                            {"Error when creating match ruleset via AccelByte API"},
                            <<createCall>>, "Create", config)
               ELSE \E readErr \in {ErrNone, ErrOther},
                       matchRuleSet \in ServerMatchRuleSets(apiMatchRuleSet.body, name) :
                    LET readCall == Call("RuleSetDetailsShort", namespace, name, GoNil, readErr)
                        made == <<createCall, readCall>>
                        created == Entity(namespace, name, matchRuleSet)
                    IN IF readErr # ErrNone
                       THEN Outcome(created, tfstate,
                                    {"Error when refreshing match ruleset via AccelByte API"},
                                    made, "Create", config)
                       ELSE IF updateFromApiMatchRuleSetPanics(matchRuleSet)
                       THEN Outcome(created, tfstate, {PluginCrash}, made, "Create", config)
                       ELSE Outcome(created, State(updateFromApiMatchRuleSet(data, matchRuleSet)),
                                    {}, made, "Create", config)

\* Mutation: a Read that stores false for a missing enable_custom_match_function
MatchRuleSetReadDefaulting ==
    /\ rkind = "match_ruleset"
    /\ tfstate.tracked
    /\ LET data == tfstate.data
           namespace == ValueString(data.namespace)
           name == ValueString(data.name)
       IN \E err \in GetResults(namespace, name) :
           LET made == <<Call("RuleSetDetailsShort", namespace, name, GoNil, err)>>
           IN IF err # ErrNone
              THEN IF ErrorTextHas404(err)
                   THEN Outcome(remote, NoState, {}, made, "Read", NoConfig)
                   ELSE Outcome(remote, tfstate,
                                {"Error when reading match ruleset via AccelByte API"},
                                made, "Read", NoConfig)
              ELSE IF updateFromApiMatchRuleSetPanics(remote.body)
              THEN Outcome(remote,
                           State([data EXCEPT
                                    !.enable_custom_match_function = TFVal(FALSE),
                                    !.configuration = TFVal(JsonMarshal(remote.body.Data))]),
                           {}, made, "Read", NoConfig)
              ELSE Outcome(remote, State(updateFromApiMatchRuleSet(data, remote.body)),
                           {}, made, "Read", NoConfig)

MatchRuleSetRead ==
    /\ rkind = "match_ruleset"
    /\ tfstate.tracked
    /\ LET data == tfstate.data
           namespace == ValueString(data.namespace)
           name == ValueString(data.name)
       IN \E err \in GetResults(namespace, name) :
           LET made == <<Call("RuleSetDetailsShort", namespace, name, GoNil, err)>>
           IN IF err # ErrNone
              THEN IF ErrorTextHas404(err)
                   THEN Outcome(remote, NoState, {}, made, "Read", NoConfig)
                   ELSE Outcome(remote, tfstate,
                                {"Error when reading match ruleset via AccelByte API"},
                                made, "Read", NoConfig)
              ELSE IF updateFromApiMatchRuleSetPanics(remote.body)
              THEN Outcome(remote, tfstate, {PluginCrash}, made, "Read", NoConfig)
              ELSE Outcome(remote, State(updateFromApiMatchRuleSet(data, remote.body)),
                           {}, made, "Read", NoConfig)

MatchRuleSetUpdate ==
    /\ rkind = "match_ruleset"
    /\ ~ImportPending
    /\ \E config \in MatchRuleSetConfigs :
        /\ SameIdentity(config)
        /\ LET data == MatchRuleSetPlan(config, tfstate.data.id)
               namespace == ValueString(data.namespace)
               name == ValueString(data.name)
               apiMatchRuleSet == toApiMatchRuleSet(data)
           IN IF apiMatchRuleSet.err
              THEN Outcome(remote, tfstate,
                           {"Error when converting our internal state to an AccelByte API match ruleset"},
                           <<>>, "Update", config)
              ELSE \E err \in UpdateResults(namespace, name),
                      apiMatchRuleSet2 \in ServerMatchRuleSets(apiMatchRuleSet.body, name) :
               LET made == <<Call("UpdateRuleSetShort", namespace, name, apiMatchRuleSet.body, err)>>
                   updated == Entity(namespace, name, apiMatchRuleSet2)
               IN IF err # ErrNone
                  THEN IF ErrorIsNotFound(err)
                       THEN Outcome(remote, tfstate, {"Resource not found"}, made, "Update", config)
                       ELSE Outcome(remote, tfstate,
                                    {"Error when updating match ruleset via AccelByte API"},
                                    made, "Update", config)
                  ELSE IF updateFromApiMatchRuleSetPanics(apiMatchRuleSet2)
                  THEN Outcome(updated, tfstate, {PluginCrash}, made, "Update", config)
                  ELSE Outcome(updated, State(updateFromApiMatchRuleSet(data, apiMatchRuleSet2)),
                               {}, made, "Update", config)

\* Mutation: a Delete that takes not found for done
MatchRuleSetDeleteNotFoundOk ==
    /\ rkind = "match_ruleset"
    /\ tfstate.tracked
    /\ ~ImportPending
    /\ LET namespace == ValueString(tfstate.data.namespace)
           name == ValueString(tfstate.data.name)
       IN \E err \in DeleteResults(namespace, name) :
           LET made == <<Call("DeleteRuleSetShort", namespace, name, GoNil, err)>>
           IN IF err = ErrOther
              THEN Outcome(remote, tfstate, {"Error when deleting ruleset via AccelByte API"},
                           made, "Delete", NoConfig)
              ELSE Outcome(NoEntity, NoState, {}, made, "Delete", NoConfig)

MatchRuleSetDelete ==
    /\ rkind = "match_ruleset"
    /\ tfstate.tracked
    /\ ~ImportPending
    /\ LET namespace == ValueString(tfstate.data.namespace)
           name == ValueString(tfstate.data.name)
       IN \E err \in DeleteResults(namespace, name) :
           LET made == <<Call("DeleteRuleSetShort", namespace, name, GoNil, err)>>
           IN IF err # ErrNone
              THEN Outcome(remote, tfstate, {"Error when deleting ruleset via AccelByte API"},
                           made, "Delete", NoConfig)
              ELSE Outcome(NoEntity, NoState, {}, made, "Delete", NoConfig)

MatchRuleSetImportState ==
    /\ rkind = "match_ruleset"
    /\ ~tfstate.tracked
    /\ \E namespace \in Namespaces, name \in Names :
        Outcome(remote,
                ImportedState(CHOOSE c \in MatchRuleSetConfigs : TRUE,
                              computeMatchRuleSetId(namespace, name)),
                {}, <<>>, "ImportState", NoConfig)

(***************************************************************************)
(* Session template: configurations, validation, plans, the backend's     *)
(* view, the handlers of AccelByteSessionTemplateResource.                 *)
(***************************************************************************)
P2pServerConfigs == {TFNull, TFVal(AccelByteSessionTemplateP2pServerModel)}

AmsServerConfigs ==
    {TFNull} \cup
    {TFVal([requested_regions |-> r, preferred_claim_keys |-> TFNull,
            fallback_claim_keys |-> TFNull]) :
        r \in {TFNull} \cup {TFVal(l) : l \in StringLists \ {<<>>}}}

CustomServerConfigs ==
    {TFNull, TFVal([custom_url |-> TFVal("u"), extend_app |-> TFNull])}

CustomSessionFunctionConfigs ==
    {TFNull,
     TFVal([on_session_created |-> TFNull, on_session_updated |-> TFNull,
            on_session_deleted |-> TFNull, on_party_created |-> TFVal(TRUE),
            on_party_updated |-> TFNull, on_party_deleted |-> TFNull,
            custom_url |-> TFNull, extend_app |-> TFVal("app")]),
     TFVal([on_session_created |-> TFVal(FALSE), on_session_updated |-> TFNull,
            on_session_deleted |-> TFNull, on_party_created |-> TFNull,
            on_party_updated |-> TFNull, on_party_deleted |-> TFNull,
            custom_url |-> TFNull, extend_app |-> TFVal("app")])}

CustomAttributesConfigs == {TFNull, TFVal("{\"a\":1}"), TFVal("{")}

\* The server variants, hook settings and attributes a configuration combines: every
\* combination of the three variants, and each other setting varied on its own
SessionTemplateSettings ==
    {[p2p_server |-> p, ams_server |-> a, custom_server |-> c,
      custom_session_function |-> TFNull, custom_attributes |-> TFVal("{\"a\":1}")] :
        p \in P2pServerConfigs, c \in CustomServerConfigs,
        a \in {x \in AmsServerConfigs : IsNull(x) \/ ~IsNull(x.v.requested_regions)}}
    \cup
    {[p2p_server |-> TFNull, ams_server |-> a, custom_server |-> TFNull,
      custom_session_function |-> f, custom_attributes |-> j] :
        a \in AmsServerConfigs \ {TFNull}, f \in {TFNull}, j \in {TFVal("{\"a\":1}")}}
    \cup
    {[p2p_server |-> TFNull, ams_server |-> TFNull, custom_server |-> TFNull,
      custom_session_function |-> f, custom_attributes |-> j] :
        f \in {g \in CustomSessionFunctionConfigs :
                    ~IsNull(g) /\ ~IsNull(g.v.on_party_created)},
        j \in CustomAttributesConfigs}
    \cup
    {[p2p_server |-> TFNull, ams_server |-> TFNull, custom_server |-> TFNull,
      custom_session_function |-> f, custom_attributes |-> TFVal("{\"a\":1}")] :
        f \in CustomSessionFunctionConfigs \ {TFNull}}

SessionTemplateConfigs ==
    {[namespace |-> TFVal(ns), name |-> TFVal(n), id |-> TFNull,
      min_players |-> TFVal(1), max_players |-> TFVal(2), joinability |-> TFVal("OPEN"),
      max_active_sessions |-> TFNull,
      custom_session_function |-> s.custom_session_function,
      invite_timeout |-> TFNull, inactive_timeout |-> TFNull,
      leader_election_grace_period |-> TFNull,
      p2p_server |-> s.p2p_server, ams_server |-> s.ams_server,
      custom_server |-> s.custom_server,
      auto_join_session |-> TFNull, chat_room |-> TFNull, secret_validation |-> TFNull,
      generate_code |-> TFNull, immutable_session_storage |-> TFNull,
      manual_set_ready_for_ds |-> TFNull, tied_teams_session_lifetime |-> TFNull,
      auto_leave_session |-> TFNull,
      custom_attributes |-> s.custom_attributes] :
        ns \in Namespaces, n \in Names, s \in SessionTemplateSettings}

\* The number of non-null values among vs
CountConfigured(vs) == Cardinality({i \in DOMAIN vs : ~IsNull(vs[i])})

\* The schema's validators, run on the configuration before any handler:
\* objectvalidator.ConflictsWith on p2p_server, boolvalidator.AtLeastOneOf on
\* on_session_created, stringvalidator.ExactlyOneOf on the two custom_url
ValidateSessionTemplateConfig(config) ==
    (IF /\ ~IsNull(config.p2p_server)
        /\ (~IsNull(config.ams_server) \/ ~IsNull(config.custom_server))
     THEN {"Invalid Attribute Combination"} ELSE {})
    \cup
    (IF /\ ~IsNull(config.custom_session_function)
        /\ LET f == config.custom_session_function.v
           IN \/ CountConfigured(<<f.on_session_created, f.on_session_updated,
                                   f.on_session_deleted, f.on_party_created,
                                   f.on_party_updated, f.on_party_deleted>>) = 0
              \/ CountConfigured(<<f.custom_url, f.extend_app>>) # 1
     THEN {"Invalid Attribute Combination"} ELSE {})
    \cup
    (IF /\ ~IsNull(config.custom_server)
        /\ CountConfigured(<<config.custom_server.v.custom_url,
                             config.custom_server.v.extend_app>>) # 1
     THEN {"Invalid Attribute Combination"} ELSE {})

SessionTemplatePlan(config, id) ==
    [config EXCEPT
        !.id = id,
        !.max_active_sessions = WithDefault(@, -1),
        !.custom_session_function =
            IF IsNull(@) THEN TFUnknown
            ELSE TFVal([on_session_created |-> WithDefault(@.v.on_session_created, FALSE),
                        on_session_updated |-> WithDefault(@.v.on_session_updated, FALSE),
                        on_session_deleted |-> WithDefault(@.v.on_session_deleted, FALSE),
                        on_party_created |-> WithDefault(@.v.on_party_created, FALSE),
                        on_party_updated |-> WithDefault(@.v.on_party_updated, FALSE),
                        on_party_deleted |-> WithDefault(@.v.on_party_deleted, FALSE),
                        custom_url |-> WithDefault(@.v.custom_url, ""),
                        extend_app |-> WithDefault(@.v.extend_app, "")]),
        !.invite_timeout = WithDefault(@, 60),
        !.inactive_timeout = WithDefault(@, 60),
        !.leader_election_grace_period = WithDefault(@, 0),
        !.p2p_server = ComputedIfNull(@),
        !.ams_server =
            IF IsNull(@) THEN TFUnknown
            ELSE TFVal([requested_regions |-> WithDefault(@.v.requested_regions, <<>>),
                        preferred_claim_keys |-> WithDefault(@.v.preferred_claim_keys, <<>>),
                        fallback_claim_keys |-> WithDefault(@.v.fallback_claim_keys, <<>>)]),
        !.custom_server =
            IF IsNull(@) THEN TFUnknown
            ELSE TFVal([custom_url |-> WithDefault(@.v.custom_url, ""),
                        extend_app |-> WithDefault(@.v.extend_app, "")]),
        !.auto_join_session = WithDefault(@, FALSE),
        !.chat_room = WithDefault(@, FALSE),
        !.secret_validation = WithDefault(@, FALSE),
        !.generate_code = WithDefault(@, TRUE),
        !.immutable_session_storage = WithDefault(@, FALSE),
        !.manual_set_ready_for_ds = WithDefault(@, FALSE),
        !.tied_teams_session_lifetime = WithDefault(@, FALSE),
        !.auto_leave_session = WithDefault(@, FALSE)]

\* The template the backend serves after a write of body; it may serve an empty list
\* as an absent one
ServerSessionTemplate(body, name, nilLists) ==
    [body EXCEPT
        !.Name = GoPtr(name),
        !.RequestedRegions = IF nilLists THEN NilIfEmpty(@) ELSE @,
        !.PreferredClaimKeys = IF nilLists THEN NilIfEmpty(@) ELSE @,
        !.FallbackClaimKeys = IF nilLists THEN NilIfEmpty(@) ELSE @]

ServerSessionTemplates(body, name) ==
    {ServerSessionTemplate(body, name, l) : l \in BOOLEAN}
    \cup {ResponseWithout(ServerSessionTemplate(body, name, FALSE), "MinPlayers")}

SessionTemplateCreate ==
    /\ rkind = "session_template"
    /\ ~tfstate.tracked
    /\ \E config \in SessionTemplateConfigs :
        LET plan == SessionTemplatePlan(config, TFUnknown)
            namespace == ValueString(plan.namespace)
            name == ValueString(plan.name)
            data == [plan EXCEPT !.id = TFVal(computeSessionTemplateId(namespace, name))]
            apiSessionTemplate == toApiSessionTemplate(data)
        IN IF ValidateSessionTemplateConfig(config) # {}
           THEN Outcome(remote, tfstate, ValidateSessionTemplateConfig(config),
                        <<>>, "Create", config)
           ELSE IF apiSessionTemplate.err
           THEN Outcome(remote, tfstate,
                        {"Error when converting our internal state to an AccelByte API session template"},
                        <<>>, "Create", config)
           ELSE \E err \in CreateResults(namespace, name) :
            LET made == <<Call("AdminCreateConfigurationTemplateV1Short", namespace, "",
                               apiSessionTemplate.body, err)>>
            IN IF err # ErrNone
               THEN Outcome(remote, tfstate,
                            {"Error when creating session template via AccelByte API"},
                            made, "Create", config)
               ELSE \E configurationTemplate \in ServerSessionTemplates(apiSessionTemplate.body, name) :
                    LET created == Entity(namespace, name, configurationTemplate)
                    IN IF updateFromApiSessionTemplatePanics(configurationTemplate)
                       THEN Outcome(created, tfstate, {PluginCrash}, made, "Create", config)
                       ELSE Outcome(created,
                                    State(updateFromApiSessionTemplate(data, configurationTemplate)),
                                    {}, made, "Create", config)

SessionTemplateRead ==
    /\ rkind = "session_template"
    /\ tfstate.tracked
    /\ LET data == tfstate.data
           namespace == ValueString(data.namespace)
           name == ValueString(data.name)
       IN \E err \in GetResults(namespace, name) :
           LET made == <<Call("AdminGetConfigurationTemplateV1Short", namespace, name, GoNil, err)>>
           IN IF err # ErrNone
              THEN IF ErrorIsNotFound(err)
                   THEN Outcome(remote, NoState, {}, made, "Read", NoConfig)
                   ELSE Outcome(remote, tfstate,
                                {"Error when reading session template via AccelByte API"},
                                made, "Read", NoConfig)
              ELSE IF updateFromApiSessionTemplatePanics(remote.body)
              THEN Outcome(remote, tfstate, {PluginCrash}, made, "Read", NoConfig)
              ELSE Outcome(remote, State(updateFromApiSessionTemplate(data, remote.body)),
                           {}, made, "Read", NoConfig)

SessionTemplateUpdate ==
    /\ rkind = "session_template"
    /\ ~ImportPending
    /\ \E config \in SessionTemplateConfigs :
        /\ SameIdentity(config)
        /\ LET data == SessionTemplatePlan(config, tfstate.data.id)
               namespace == ValueString(data.namespace)
               name == ValueString(data.name)
               apiSessionTemplateConfig == toApiSessionTemplateConfig(data)
           IN IF ValidateSessionTemplateConfig(config) # {}
              THEN Outcome(remote, tfstate, ValidateSessionTemplateConfig(config),
                           <<>>, "Update", config)
              ELSE IF apiSessionTemplateConfig.err
              THEN Outcome(remote, tfstate,
                           {"Error when converting our internal state to an AccelByte API session template config"},
                           <<>>, "Update", config)
              ELSE \E err \in UpdateResults(namespace, name) :
               LET made == <<Call("AdminUpdateConfigurationTemplateV1Short", namespace, name,
                                  apiSessionTemplateConfig.body, err)>>
               IN IF err # ErrNone
                  THEN IF ErrorIsNotFound(err)
                       THEN Outcome(remote, tfstate, {"Resource not found"}, made, "Update", config)
                       ELSE Outcome(remote, tfstate,
                                    {"Error when updating session template via AccelByte API"},
                                    made, "Update", config)
                  ELSE \E apiSessionTemplate \in ServerSessionTemplates(apiSessionTemplateConfig.body, name) :
                       LET updated == Entity(namespace, name, apiSessionTemplate)
                       IN IF updateFromApiSessionTemplatePanics(apiSessionTemplate)
                          THEN Outcome(updated, tfstate, {PluginCrash}, made, "Update", config)
                          ELSE Outcome(updated,
                                       State(updateFromApiSessionTemplate(data, apiSessionTemplate)),
                                       {}, made, "Update", config)

SessionTemplateDelete ==
    /\ rkind = "session_template"
    /\ tfstate.tracked
    /\ ~ImportPending
    /\ LET namespace == ValueString(tfstate.data.namespace)
           name == ValueString(tfstate.data.name)
       IN \E err \in DeleteResults(namespace, name) :
           LET made == <<Call("AdminDeleteConfigurationTemplateV1Short", namespace, name, GoNil, err)>>
           IN IF err # ErrNone
              THEN Outcome(remote, tfstate,
                           {"Error when deleting session template via AccelByte API"},
                           made, "Delete", NoConfig)
              ELSE Outcome(NoEntity, NoState, {}, made, "Delete", NoConfig)

SessionTemplateImportState ==
    /\ rkind = "session_template"
    /\ ~tfstate.tracked
    /\ \E namespace \in Namespaces, name \in Names :
        Outcome(remote,
                ImportedState(CHOOSE c \in SessionTemplateConfigs : TRUE,
                              computeSessionTemplateId(namespace, name)),
                {}, <<>>, "ImportState", NoConfig)

(***************************************************************************)
(* The provider: AccelByteProvider.Configure and the Configure of the      *)
(* resources and data sources it hands its clients to.                     *)
(***************************************************************************)
Settings == {"base_url", "iam_client_id", "iam_client_secret",
             "admin_username", "admin_password"}

\* What a setting can be in the provider block, and what os.Getenv can return for
\* its environment variable ("" when the variable is not set)
ProviderConfigs == [Settings -> {TFNull, TFUnknown, TFVal(""), TFVal("cfg")}]
ProviderEnvs == [Settings -> {"", "env"}]

\* Mutation: the environment variable wins over the provider block
ResolveEnvFirst(config, env, setting) ==
    IF env[setting] # "" THEN env[setting] ELSE ValueString(config[setting])

\* The value Configure uses for a setting
Resolve(config, env, setting) ==
    IF ~IsNull(config[setting]) THEN ValueString(config[setting]) ELSE env[setting]

AttributeError(setting, summary) == [path |-> setting, summary |-> summary]
UnknownErrors(config) ==
    {AttributeError(s, "Unknown AccelByte API " \o s) : s \in {t \in Settings : IsUnknown(config[t])}}
MissingErrors(config, env) ==
    {AttributeError(s, "Missing AccelByte provider " \o s) :
        s \in {t \in Settings : Resolve(config, env, t) = ""}}
LoginError == [path |-> "", summary |-> "Unable to log in to AccelByte backend"]

\* auth.ConfigRepositoryImpl, and the call of oAuth20Service.LoginUser
ConfigRepository(config, env) ==
    [ClientId |-> Resolve(config, env, "iam_client_id"),
     ClientSecret |-> Resolve(config, env, "iam_client_secret"),
     BaseUrl |-> Resolve(config, env, "base_url")]
LoginUser(config, env, err) ==
    [api |-> "LoginUser",
     configRepository |-> ConfigRepository(config, env),
     username |-> Resolve(config, env, "admin_username"),
     password |-> Resolve(config, env, "admin_password"),
     err |-> err]

\* AccelByteProviderClients
AccelByteProviderClients ==
    [Match2PoolsService |-> "match2.MatchPoolsService",
     RuleSetsService |-> "match2.RuleSetsService",
     SessionConfigurationTemplateService |-> "session.ConfigurationTemplateService"]

\* The resources and data sources, and the client each takes in its Configure
Resources == {"AccelByteMatchPoolResource", "AccelByteMatchRuleSetResource",
              "AccelByteSessionTemplateResource"}
DataSources == {"AccelByteMatchPoolDataSource", "AccelByteMatchRuleSetDataSource",
                "AccelByteSessionTemplateDataSource"}
ClientOf(component) ==
    CASE component \in {"AccelByteMatchPoolResource", "AccelByteMatchPoolDataSource"} ->
            "Match2PoolsService"
      [] component \in {"AccelByteMatchRuleSetResource", "AccelByteMatchRuleSetDataSource"} ->
            "RuleSetsService"
      [] OTHER -> "SessionConfigurationTemplateService"

\* The provider before Configure: nothing to hand out, no component has a client
NewProvider ==
    [configured |-> FALSE, config |-> NoConfig, env |-> NoConfig, logins |-> 0,
     token |-> FALSE,
     ResourceData |-> GoNil, DataSourceData |-> GoNil,
     client |-> [c \in Resources \cup DataSources |-> GoNil]]

\* What Configure leaves behind; the token repository holds a token once a login
\* has succeeded
Configured(config, env, clients, newDiags, newCalls) ==
    /\ provider' = [provider EXCEPT !.configured = TRUE, !.config = config, !.env = env,
                                    !.logins = @ + Len(newCalls),
                                    !.token = newCalls # <<>> /\ newCalls[1].err = ErrNone,
                                    !.ResourceData = clients, !.DataSourceData = clients]
    /\ diags' = newDiags
    /\ calls' = newCalls
    /\ op' = [name |-> "Configure", config |-> NoConfig]
    /\ UNCHANGED <<rkind, remote, tfstate, dsstate, codec>>

\* Mutation: the clients handed out whatever the login returned
ProviderConfigureIgnoringLogin ==
    /\ ~provider.configured
    /\ \E config \in ProviderConfigs, env \in ProviderEnvs :
        IF UnknownErrors(config) # {}
        THEN Configured(config, env, GoNil, UnknownErrors(config), <<>>)
        ELSE IF MissingErrors(config, env) # {}
        THEN Configured(config, env, GoNil, MissingErrors(config, env), <<>>)
        ELSE \E err \in {ErrNone, ErrOther} :
            Configured(config, env, GoPtr(AccelByteProviderClients),
                       IF err # ErrNone THEN {LoginError} ELSE {},
                       <<LoginUser(config, env, err)>>)

\* Mutation: the login made although a setting is missing
ProviderConfigureLoginAnyway ==
    /\ ~provider.configured
    /\ \E config \in ProviderConfigs, env \in ProviderEnvs :
        IF UnknownErrors(config) # {}
        THEN Configured(config, env, GoNil, UnknownErrors(config), <<>>)
        ELSE \E err \in {ErrNone, ErrOther} :
            IF err # ErrNone
            THEN Configured(config, env, GoNil,
                            MissingErrors(config, env) \cup {LoginError},
                            <<LoginUser(config, env, err)>>)
            ELSE Configured(config, env, GoPtr(AccelByteProviderClients),
                            MissingErrors(config, env), <<LoginUser(config, env, err)>>)

\* AccelByteProvider.Configure (the framework calls it once in the life of the process)
ProviderConfigure ==
    /\ ~provider.configured
    /\ \E config \in ProviderConfigs, env \in ProviderEnvs :
        IF UnknownErrors(config) # {}
        THEN Configured(config, env, GoNil, UnknownErrors(config), <<>>)
        ELSE IF MissingErrors(config, env) # {}
        THEN Configured(config, env, GoNil, MissingErrors(config, env), <<>>)
        ELSE \E err \in {ErrNone, ErrOther} :
            IF err # ErrNone
            THEN Configured(config, env, GoNil, {LoginError},
                            <<LoginUser(config, env, err)>>)
            ELSE Configured(config, env, GoPtr(AccelByteProviderClients), {},
                            <<LoginUser(config, env, err)>>)

\* Configure of a resource or of a data source, with the provider data it is given
ComponentConfigure(component, providerData) ==
    /\ provider' = IF IsNil(providerData)
                   THEN provider
                   ELSE [provider EXCEPT
                            !.client[component] = GoPtr(providerData.v[ClientOf(component)])]
    /\ diags' = {}
    /\ calls' = <<>>
    /\ op' = [name |-> "ComponentConfigure", config |-> NoConfig]
    /\ UNCHANGED <<rkind, remote, tfstate, dsstate, codec>>

ResourceConfigure ==
    \E r \in Resources : ComponentConfigure(r, provider.ResourceData)

DataSourceConfigure ==
    \E d \in DataSources : ComponentConfigure(d, provider.DataSourceData)

\* The provider the resource handlers run under: configured, every client handed out
ConfiguredProvider ==
    [configured |-> TRUE,
     config |-> [s \in Settings |-> TFVal("cfg")],
     env |-> [s \in Settings |-> ""],
     logins |-> 1,
     token |-> TRUE,
     ResourceData |-> GoPtr(AccelByteProviderClients),
     DataSourceData |-> GoPtr(AccelByteProviderClients),
     client |-> [c \in Resources \cup DataSources |-> GoPtr(AccelByteProviderClients[ClientOf(c)])]]

(***************************************************************************)
(* The backend changes out of band: the entity is deleted, or created, by  *)
(* someone else.                                                           *)
(***************************************************************************)
OutOfBandBodies ==
    CASE rkind = "match_pool" ->
            UNION {ServerMatchPools(toApiMatchPool(MatchPoolPlan(c, TFUnknown)), ValueString(c.name)) :
                    c \in MatchPoolConfigs}
      [] rkind = "session_template" ->
            UNION {ServerSessionTemplates(toApiSessionTemplate(SessionTemplatePlan(c, TFUnknown)).body,
                                          ValueString(c.name)) :
                    c \in {d \in SessionTemplateConfigs :
                            /\ ValidateSessionTemplateConfig(d) = {}
                            /\ ~toApiSessionTemplate(SessionTemplatePlan(d, TFUnknown)).err}}
      [] rkind = "match_ruleset" ->
            UNION {ServerMatchRuleSets(toApiMatchRuleSet(MatchRuleSetPlan(c, TFUnknown)).body,
                                       ValueString(c.name)) :
                    c \in {d \in MatchRuleSetConfigs :
                            ~toApiMatchRuleSet(MatchRuleSetPlan(d, TFUnknown)).err}}

OutOfBandDelete ==
    /\ remote.exists
    /\ Outcome(NoEntity, tfstate, {}, <<>>, "OutOfBand", NoConfig)

OutOfBandCreate ==
    /\ ~remote.exists
    /\ \E body \in OutOfBandBodies, namespace \in Namespaces :
        Outcome(Entity(namespace, body.Name.v, body), tfstate, {}, <<>>, "OutOfBand", NoConfig)

Init ==
    /\ rkind \in Kinds
    /\ remote = NoEntity
    /\ tfstate = NoState
    /\ diags = {}
    /\ calls = <<>>
    /\ dsstate = NoState
    /\ provider = ConfiguredProvider
    /\ op = [name |-> "Init", config |-> NoConfig]
    /\ codec = CodecIdle

Next ==
    \/ MatchPoolCreate
    \/ MatchPoolRead
    \/ MatchPoolUpdate
    \/ MatchPoolDelete
    \/ MatchPoolImportState
    \/ MatchRuleSetCreate
    \/ MatchRuleSetRead
    \/ MatchRuleSetUpdate
    \/ MatchRuleSetDelete
    \/ MatchRuleSetImportState
    \/ SessionTemplateCreate
    \/ SessionTemplateRead
    \/ SessionTemplateUpdate
    \/ SessionTemplateDelete
    \/ SessionTemplateImportState
    \/ OutOfBandDelete
    \/ OutOfBandCreate

Spec == Init /\ [][Next]_vars

(***************************************************************************)
(* The life of the provider: Configure, then the Configure of each         *)
(* resource and data source (which the framework may also call before).    *)
(***************************************************************************)
ProviderInit ==
    /\ rkind \in Kinds
    /\ remote = NoEntity
    /\ tfstate = NoState
    /\ diags = {}
    /\ calls = <<>>
    /\ dsstate = NoState
    /\ provider = NewProvider
    /\ op = [name |-> "Init", config |-> NoConfig]
    /\ codec = CodecIdle

ProviderNext ==
    \/ ProviderConfigure
    \/ ResourceConfigure
    \/ DataSourceConfigure

ProviderSpec == ProviderInit /\ [][ProviderNext]_vars

(***************************************************************************)
(* The data sources: each Read fetches the entity its configuration names. *)
(***************************************************************************)
DataSourceConfigs == [namespace : Namespaces, name : Names]

\* req.Config.Get of a data source, then the id: the configured namespace and name,
\* every computed attribute null
DataSourceModel(attributes, config, id) ==
    [f \in attributes |->
        CASE f = "namespace" -> TFVal(config.namespace)
          [] f = "name" -> TFVal(config.name)
          [] f = "id" -> TFVal(id)
          [] OTHER -> TFNull]

\* What a data source Read leaves behind
DataSourceOutcome(newState, newDiags, newCalls, config) ==
    /\ dsstate' = newState
    /\ diags' = newDiags
    /\ calls' = newCalls
    /\ op' = [name |-> "DataSourceRead", config |-> config]
    /\ UNCHANGED <<rkind, remote, tfstate, provider, codec>>

\* Mutation: not found taken as in the Read of the resource, without an error
MatchPoolDataSourceReadSilent ==
    /\ rkind = "match_pool"
    /\ \E config \in DataSourceConfigs :
        LET attributes == DOMAIN MatchPoolPlan(CHOOSE c \in MatchPoolConfigs : TRUE, TFUnknown)
            data == DataSourceModel(attributes, config,
                                    computeMatchPoolId(config.namespace, config.name))
        IN \E err \in GetResults(config.namespace, config.name) :
            LET made == <<Call("MatchPoolDetailsShort", config.namespace, config.name, GoNil, err)>>
            IN IF err # ErrNone
               THEN IF ErrorTextHas404(err)
                    THEN DataSourceOutcome(NoState, {}, made, config)
                    ELSE DataSourceOutcome(NoState,
                                           {"Error when reading match pool via AccelByte API"},
                                           made, config)
               ELSE IF updateFromApiMatchPoolPanics(remote.body)
               THEN DataSourceOutcome(NoState, {PluginCrash}, made, config)
               ELSE DataSourceOutcome(State(updateFromApiMatchPool(data, remote.body)),
                                      {}, made, config)

MatchPoolDataSourceRead ==
    /\ rkind = "match_pool"
    /\ \E config \in DataSourceConfigs :
        LET attributes == DOMAIN MatchPoolPlan(CHOOSE c \in MatchPoolConfigs : TRUE, TFUnknown)
            data == DataSourceModel(attributes, config,
                                    computeMatchPoolId(config.namespace, config.name))
        IN \E err \in GetResults(config.namespace, config.name) :
            LET made == <<Call("MatchPoolDetailsShort", config.namespace, config.name, GoNil, err)>>
            IN IF err # ErrNone
               THEN IF ErrorTextHas404(err)
                    THEN DataSourceOutcome(NoState, {"Data source not found"}, made, config)
                    ELSE DataSourceOutcome(NoState,
                                           {"Error when reading match pool via AccelByte API"},
                                           made, config)
               ELSE IF updateFromApiMatchPoolPanics(remote.body)
               THEN DataSourceOutcome(NoState, {PluginCrash}, made, config)
               ELSE DataSourceOutcome(State(updateFromApiMatchPool(data, remote.body)),
                                      {}, made, config)

MatchRuleSetDataSourceRead ==
    /\ rkind = "match_ruleset"
    /\ \E config \in DataSourceConfigs :
        LET attributes == DOMAIN MatchRuleSetPlan(CHOOSE c \in MatchRuleSetConfigs : TRUE, TFUnknown)
            data == DataSourceModel(attributes, config,
                                    computeMatchRuleSetId(config.namespace, config.name))
        IN \E err \in GetResults(config.namespace, config.name) :
            LET made == <<Call("RuleSetDetailsShort", config.namespace, config.name, GoNil, err)>>
            IN IF err # ErrNone
               THEN IF ErrorTextHas404(err)
                    THEN DataSourceOutcome(NoState, {"Data source not found"}, made, config)
                    ELSE DataSourceOutcome(NoState,
                                           {"Error when reading match ruleset via AccelByte API"},
                                           made, config)
               ELSE IF updateFromApiMatchRuleSetPanics(remote.body)
               THEN DataSourceOutcome(NoState, {PluginCrash}, made, config)
               ELSE DataSourceOutcome(State(updateFromApiMatchRuleSet(data, remote.body)),
                                      {}, made, config)

SessionTemplateDataSourceRead ==
    /\ rkind = "session_template"
    /\ \E config \in DataSourceConfigs :
        LET attributes == DOMAIN SessionTemplatePlan(CHOOSE c \in SessionTemplateConfigs : TRUE,
                                                     TFUnknown)
            data == DataSourceModel(attributes, config,
                                    computeSessionTemplateId(config.namespace, config.name))
        IN \E err \in GetResults(config.namespace, config.name) :
            LET made == <<Call("AdminGetConfigurationTemplateV1Short", config.namespace,
                               config.name, GoNil, err)>>
            IN IF err # ErrNone
               THEN IF ErrorIsNotFound(err)
                    THEN DataSourceOutcome(NoState, {"Data source not found"}, made, config)
                    ELSE DataSourceOutcome(NoState,
                                           {"Error when reading session template via AccelByte API"},
                                           made, config)
               ELSE IF updateFromApiSessionTemplatePanics(remote.body)
               THEN DataSourceOutcome(NoState, {PluginCrash}, made, config)
               ELSE DataSourceOutcome(State(updateFromApiSessionTemplate(data, remote.body)),
                                      {}, made, config)

\* The data sources read a backend that others create entities in and delete them from
DataSourceNext ==
    \/ MatchPoolDataSourceRead
    \/ MatchRuleSetDataSourceRead
    \/ SessionTemplateDataSourceRead
    \/ OutOfBandCreate
    \/ OutOfBandDelete

DataSourceSpec == Init /\ [][DataSourceNext]_vars

(***************************************************************************)
(* The codecs on their own: each function applied to drawn inputs, and to  *)
(* the result of the function applied before it (a round trip).            *)
(***************************************************************************)
MaxHops == 3

\* Responses of the session API, the discriminator pair and the lists drawn freely
ApiSessionTemplates ==
    {[Name |-> GoPtr("a"), MinPlayers |-> GoPtr(1), MaxPlayers |-> GoPtr(2),
      Joinability |-> GoPtr("OPEN"), MaxActiveSessions |-> -1,
      GrpcSessionConfig |-> g,
      InviteTimeout |-> GoPtr(60), InactiveTimeout |-> GoPtr(60),
      LeaderElectionGracePeriod |-> 0,
      Type |-> ty, DsSource |-> ds,
      RequestedRegions |-> rr, PreferredClaimKeys |-> pk, FallbackClaimKeys |-> GoNil,
      CustomURLGRPC |-> "u", AppName |-> "",
      AutoJoin |-> FALSE, TextChat |-> GoPtr(FALSE), EnableSecret |-> FALSE,
      DisableCodeGeneration |-> FALSE, ImmutableStorage |-> FALSE,
      DsManualSetReady |-> FALSE, TieTeamsSessionLifetime |-> FALSE,
      AutoLeaveSession |-> FALSE, Attributes |-> at] :
        ty \in {GoNil, GoPtr(AccelByteSessionTemplateServerTypeNone),
                GoPtr(AccelByteSessionTemplateServerTypeP2P),
                GoPtr(AccelByteSessionTemplateServerTypeDS)},
        ds \in {AccelByteSessionTemplateDsSourceNone, AccelByteSessionTemplateDsSourceAms,
                AccelByteSessionTemplateDsSourceCustom},
        rr \in {GoNil} \cup {GoPtr(l) : l \in StringLists},
        pk \in {GoNil, GoPtr(<<>>)},
        g \in {GoNil,
               GoPtr([CustomURL |-> "", AppName |-> "app", FunctionFlag |-> GoNil]),
               GoPtr([CustomURL |-> "", AppName |-> "app", FunctionFlag |-> GoPtr(9)])},
        at \in {JsonUnmarshal("{\"a\":1}").v, JsonNull}}

\* Responses of the match pool API
ApiMatchPools ==
    {[Name |-> GoPtr("a"), RuleSet |-> GoPtr("rs"), SessionTemplate |-> st,
      TicketExpirationSeconds |-> GoPtr(300), BestLatencyCalculationMethod |-> "",
      AutoAcceptBackfillProposal |-> GoPtr(FALSE),
      BackfillProposalExpirationSeconds |-> GoPtr(30),
      BackfillTicketExpirationSeconds |-> GoPtr(300),
      MatchFunction |-> GoPtr("default"),
      MatchFunctionOverride |-> o,
      CrossplayDisabled |-> x, PlatformGroupEnabled |-> FALSE] :
        st \in {GoNil, GoPtr("st")}, x \in BOOLEAN,
        o \in {GoNil} \cup
              {GoPtr([BackfillMatches |-> b, Enrichment |-> e, MakeMatches |-> "",
                      StatCodes |-> GoNil, Validation |-> GoPtr(<<>>)]) :
                  b \in {"", "bf"}, e \in {GoNil} \cup {GoPtr(l) : l \in StringLists}}}

\* Responses of the ruleset API
ApiMatchRuleSets ==
    {[Name |-> GoPtr("a"), EnableCustomMatchFunction |-> e, Data |-> JsonUnmarshal(t).v] :
        e \in {GoNil, GoPtr(FALSE), GoPtr(TRUE)}, t \in JsonValidTexts}

\* The plans the encoders are given; the JSON-blob attributes take every text
CodecPlans ==
    CASE rkind = "match_pool" ->
            {MatchPoolPlan(c, TFVal(computeMatchPoolId("ns", ValueString(c.name)))) :
                c \in MatchPoolConfigs}
      [] rkind = "match_ruleset" ->
            {MatchRuleSetPlan([c EXCEPT !.configuration = TFVal(t)],
                              TFVal(computeMatchRuleSetId("ns", ValueString(c.name)))) :
                c \in MatchRuleSetConfigs, t \in JsonTexts}
      [] rkind = "session_template" ->
            {SessionTemplatePlan(c, TFVal(computeSessionTemplateId("ns", ValueString(c.name)))) :
                c \in SessionTemplateConfigs \cup
                      {[d EXCEPT !.custom_attributes = TFVal(t)] :
                          t \in JsonValidTexts,
                          d \in {e \in SessionTemplateConfigs :
                                    /\ e.name = TFVal("a")
                                    /\ PopulatedVariants(e) = 0
                                    /\ IsNull(e.custom_session_function)}}}

\* The model an encoder is given: a plan, or what the decoder just produced
EncoderInputs(decoder) ==
    IF codec = CodecIdle
    THEN {[origin |-> "plan", hops |-> 1, input |-> d, data |-> d] : d \in CodecPlans}
    ELSE IF codec.fn = decoder /\ ~codec.panic /\ codec.hops < MaxHops
    THEN {[origin |-> codec.origin, hops |-> codec.hops + 1, input |-> codec.input,
           data |-> codec.out]}
    ELSE {}

\* The response a decoder is given, and the model it updates: a response of the API
\* over a plan, or what the encoder just produced over the model it encoded
DecoderInputs(encoder, responses) ==
    IF codec = CodecIdle
    THEN {[origin |-> "api", hops |-> 1, input |-> t, data |-> d, api |-> t] :
            t \in responses, d \in CodecPlans}
    ELSE IF codec.fn = encoder /\ ~codec.err /\ codec.hops < MaxHops
    THEN {[origin |-> codec.origin, hops |-> codec.hops + 1, input |-> codec.input,
           data |-> codec.data, api |-> codec.api]}
    ELSE {}

Encoded(fn, in, result, err) ==
    /\ codec' = [fn |-> fn, origin |-> in.origin, hops |-> in.hops, input |-> in.input,
                 data |-> in.data, api |-> result, err |-> err, panic |-> FALSE]
    /\ UNCHANGED <<rkind, remote, tfstate, diags, calls, dsstate, provider, op>>

Decoded(fn, in, panics, result) ==
    /\ codec' = [fn |-> fn, origin |-> in.origin, hops |-> in.hops, input |-> in.input,
                 data |-> in.data, api |-> in.api, err |-> FALSE, panic |-> panics,
                 out |-> IF panics THEN in.data ELSE result]
    /\ UNCHANGED <<rkind, remote, tfstate, diags, calls, dsstate, provider, op>>

CodecToApiMatchPool ==
    /\ rkind = "match_pool"
    /\ \E in \in EncoderInputs("updateFromApiMatchPool") :
        Encoded("toApiMatchPool", in, toApiMatchPool(in.data), FALSE)

CodecUpdateFromApiMatchPool ==
    /\ rkind = "match_pool"
    /\ \E in \in DecoderInputs("toApiMatchPool", ApiMatchPools) :
        Decoded("updateFromApiMatchPool", in, updateFromApiMatchPoolPanics(in.api),
                updateFromApiMatchPool(in.data, in.api))

CodecToApiMatchRuleSet ==
    /\ rkind = "match_ruleset"
    /\ \E in \in EncoderInputs("updateFromApiMatchRuleSet") :
        Encoded("toApiMatchRuleSet", in, toApiMatchRuleSet(in.data).body,
                toApiMatchRuleSet(in.data).err)

CodecUpdateFromApiMatchRuleSet ==
    /\ rkind = "match_ruleset"
    /\ \E in \in DecoderInputs("toApiMatchRuleSet", ApiMatchRuleSets) :
        Decoded("updateFromApiMatchRuleSet", in, updateFromApiMatchRuleSetPanics(in.api),
                updateFromApiMatchRuleSet(in.data, in.api))

CodecToApiSessionTemplate ==
    /\ rkind = "session_template"
    /\ \E in \in EncoderInputs("updateFromApiSessionTemplate") :
        Encoded("toApiSessionTemplate", in, toApiSessionTemplate(in.data).body,
                toApiSessionTemplate(in.data).err)

CodecUpdateFromApiSessionTemplate ==
    /\ rkind = "session_template"
    /\ \E in \in DecoderInputs("toApiSessionTemplate", ApiSessionTemplates) :
        Decoded("updateFromApiSessionTemplate", in, updateFromApiSessionTemplatePanics(in.api),
                updateFromApiSessionTemplate(in.data, in.api))

\* The custom_session_function objects of a plan: every combination of the six flags
CustomSessionFunctionModels ==
    {TFVal([on_session_created |-> TFVal(f[1]), on_session_updated |-> TFVal(f[2]),
            on_session_deleted |-> TFVal(f[3]), on_party_created |-> TFVal(f[4]),
            on_party_updated |-> TFVal(f[5]), on_party_deleted |-> TFVal(f[6]),
            custom_url |-> TFVal(""), extend_app |-> TFVal("app")]) :
        f \in [1..6 -> BOOLEAN]}

CodecToModelsExtendConfiguration ==
    /\ rkind = "session_template"
    /\ codec = CodecIdle
    /\ \E m \in CustomSessionFunctionModels :
        Encoded("toModelsExtendConfiguration",
                [origin |-> "plan", hops |-> 1, input |-> m, data |-> m],
                toModelsExtendConfiguration(m), FALSE)

CodecCustomSessionFunctionFromApi ==
    /\ rkind = "session_template"
    /\ codec.fn = "toModelsExtendConfiguration"
    /\ Decoded("CustomSessionFunctionFromApi",
               [origin |-> codec.origin, hops |-> codec.hops + 1, input |-> codec.input,
                data |-> codec.data, api |-> codec.api],
               FALSE, CustomSessionFunctionFromApi(codec.api))

CodecInit == Init

CodecNext ==
    \/ CodecToApiMatchPool
    \/ CodecUpdateFromApiMatchPool
    \/ CodecToApiMatchRuleSet
    \/ CodecUpdateFromApiMatchRuleSet
    \/ CodecToApiSessionTemplate
    \/ CodecUpdateFromApiSessionTemplate
    \/ CodecToModelsExtendConfiguration
    \/ CodecCustomSessionFunctionFromApi

CodecSpec == CodecInit /\ [][CodecNext]_vars

(***************************************************************************)
(* Properties.                                                             *)
(***************************************************************************)
\* The remote calls of an operation that ended in an error
FailedCalls(cs) == {i \in DOMAIN cs : cs[i].api # "time.Sleep" /\ cs[i].err # ErrNone}

\* C1: after a Create whose create call succeeded the entity exists remotely and
\* is tracked in state; after any other Create nothing was created and nothing is
\* tracked: there is no outcome where the entity was created remotely but is untracked
C1_CreateIsAtomic ==
    (op.name = "Create" /\ calls # <<>>) =>
        IF calls[1].err = ErrNone
        THEN remote.exists /\ tfstate.tracked
        ELSE ~tfstate.tracked

\* C2: a Read whose fetch reports not found (404) removes the resource from state
\* and adds no error diagnostic, for each of the three resource kinds
C2_ReadNotFoundRemovesSilently ==
    (op.name = "Read" /\ calls[1].err = ErrNotFound) =>
        (~tfstate.tracked /\ diags = {})

C2_ReadNotFoundReached ==
    /\ rkind = "match_pool"
    /\ op.name = "Read"
    /\ calls[1].err = ErrNotFound
    /\ calls[1].key \in Names
    /\ ~tfstate.tracked
    /\ diags = {}

\* C3: an Update whose call reports not found adds the "Resource not found" error
\* and leaves the local state as it was
C3_UpdateNotFoundIsError ==
    [][(op'.name = "Update" /\ calls' # <<>> /\ calls'[1].err = ErrNotFound) =>
        ("Resource not found" \in diags' /\ tfstate' = tfstate)]_vars

C3_UpdateNotFoundReached ==
    /\ op.name = "Update"
    /\ calls # <<>>
    /\ calls[1].err = ErrNotFound
    /\ diags = {"Resource not found"}
    /\ tfstate.tracked
    /\ ~remote.exists

\* C4: a Create, Update or Delete with a failed remote call, and a Read whose fetch
\* failed with something other than not found, adds an error diagnostic and leaves
\* the state exactly as it was (a failed Create untracked, a failed Delete tracked)
C4_FailedCallKeepsState ==
    [][(/\ op'.name \in {"Create", "Read", "Update", "Delete"}
        /\ FailedCalls(calls') # {}
        /\ ~(op'.name = "Read" /\ calls'[1].err = ErrNotFound)) =>
        (diags' # {} /\ tfstate' = tfstate)]_vars

C4_FailedDeleteReached ==
    /\ op.name = "Delete"
    /\ FailedCalls(calls) # {}
    /\ diags # {}
    /\ tfstate.tracked
    /\ remote.exists

\* C5: a session template configuration that sets more than one of p2p_server,
\* ams_server and custom_server is rejected with a configuration error before any
\* API call
C5_SeveralVariantsRejected ==
    (/\ rkind = "session_template"
     /\ op.name \in {"Create", "Update"}
     /\ PopulatedVariants(op.config) > 1) =>
        (diags # {} /\ calls = <<>>)

\* C6: decoding any session template response populates at most one of p2p_server,
\* ams_server and custom_server, also when the response is the re-encoding of a
\* decoded model
C6_DecodesAtMostOneVariant ==
    (codec.fn = "updateFromApiSessionTemplate" /\ ~codec.panic) =>
        PopulatedVariants(codec.out) <= 1

C6_ReencodedDecodeReached ==
    /\ codec.fn = "updateFromApiSessionTemplate"
    /\ ~codec.panic
    /\ codec.origin = "api"
    /\ codec.hops = 3
    /\ codec.input.Type = GoPtr(AccelByteSessionTemplateServerTypeDS)
    /\ PopulatedVariants(codec.out) = 1

\* C7: encoding a declared state with at most one variant and decoding the result
\* gives the same variant with the same field values; ams_server alone encodes as
\* type "DS" with source "AMS" and decodes with p2p_server and custom_server absent
C7_EncodeDecodeKeepsVariant ==
    (/\ codec.fn = "updateFromApiSessionTemplate"
     /\ codec.origin = "plan"
     /\ codec.hops = 2
     /\ PopulatedVariants(codec.input) <= 1) =>
        /\ codec.out.p2p_server =
              IF Populated(codec.input.p2p_server) THEN codec.input.p2p_server ELSE TFNull
        /\ codec.out.ams_server =
              IF Populated(codec.input.ams_server) THEN codec.input.ams_server ELSE TFNull
        /\ codec.out.custom_server =
              IF Populated(codec.input.custom_server) THEN codec.input.custom_server ELSE TFNull
        /\ Populated(codec.input.ams_server) =>
              /\ codec.api.Type = GoPtr("DS")
              /\ codec.api.DsSource = "AMS"
              /\ IsNull(codec.out.p2p_server)
              /\ IsNull(codec.out.custom_server)

C7_AmsRoundTripReached ==
    /\ codec.fn = "updateFromApiSessionTemplate"
    /\ codec.origin = "plan"
    /\ codec.hops = 2
    /\ PopulatedVariants(codec.input) = 1
    /\ Populated(codec.input.ams_server)
    /\ codec.input.ams_server.v.requested_regions = TFVal(<<"x">>)
    /\ codec.out.ams_server = codec.input.ams_server

\* C8: the Read that follows an import of "<namespace>/<name>" fetches the entity of
\* that namespace and name, and the state it leaves has namespace, name and id that
\* agree
C8_ImportThenReadConsistent ==
    [][(op.name = "ImportState" /\ op'.name = "Read") =>
        \E namespace \in Namespaces, name \in Names :
            /\ tfstate.data.id = TFVal(namespace \o "/" \o name)
            /\ calls'[1].namespace = namespace
            /\ calls'[1].key = name
            /\ tfstate'.tracked =>
                /\ tfstate'.data.namespace = TFVal(namespace)
                /\ tfstate'.data.name = TFVal(name)
                /\ tfstate'.data.id = tfstate.data.id]_vars

\* C9 as stated: the body of an Update call never carries the name
C9_UpdateBodyHasNoName ==
    (op.name = "Update" /\ calls # <<>>) => "Name" \notin DOMAIN calls[1].body

\* C9, amended: the body of an Update call never carries the namespace; the match
\* pool's body carries no name, and the ruleset's and the session template's body
\* carry the name the resource already has
C9_UpdateBodyKeepsIdentity ==
    (op.name = "Update" /\ calls # <<>>) =>
        /\ "Namespace" \notin DOMAIN calls[1].body
        /\ rkind = "match_pool" => "Name" \notin DOMAIN calls[1].body
        /\ rkind # "match_pool" =>
            /\ calls[1].body.Name = GoPtr(calls[1].key)
            /\ tfstate.tracked /\ calls[1].body.Name = ValuePointer(tfstate.data.name)

C9_UpdateBodyReached ==
    /\ rkind = "session_template"
    /\ op.name = "Update"
    /\ calls # <<>>
    /\ calls[1].err = ErrNone
    /\ calls[1].body.Name = GoPtr("a")
    /\ tfstate.data.name = TFVal("a")

\* C10: after decoding a match pool response, match_function_override is null exactly
\* when it is absent both from the prior state and from the response; with the prior
\* state populated and none in the response it is a present object of empty values
C10_OverrideNullRule ==
    (codec.fn = "updateFromApiMatchPool" /\ ~codec.panic) =>
        /\ IsNull(codec.out.match_function_override) <=>
              (~Populated(codec.data.match_function_override)
               /\ IsNil(codec.api.MatchFunctionOverride))
        /\ (Populated(codec.data.match_function_override)
            /\ IsNil(codec.api.MatchFunctionOverride)) =>
              codec.out.match_function_override =
                  TFVal([backfill_matches |-> TFVal(""), enrichment |-> TFNull,
                         make_matches |-> TFVal(""), stat_codes |-> TFNull,
                         validation |-> TFNull])

C10_OverrideKeptReached ==
    /\ codec.fn = "updateFromApiMatchPool"
    /\ ~codec.panic
    /\ Populated(codec.data.match_function_override)
    /\ IsNil(codec.api.MatchFunctionOverride)
    /\ Populated(codec.out.match_function_override)

\* The response carries no custom-function configuration
NoCustomFunctionInApi(t) ==
    IsNil(t.GrpcSessionConfig) \/ IsNil(t.GrpcSessionConfig.v.FunctionFlag)

\* C11: after decoding a session template response, custom_session_function is null
\* exactly when it is absent both from the prior state and from the response; with the
\* prior state populated and none in the response it stays a present object
C11_CustomSessionFunctionNullRule ==
    (codec.fn = "updateFromApiSessionTemplate" /\ ~codec.panic) =>
        /\ IsNull(codec.out.custom_session_function) <=>
              (~Populated(codec.data.custom_session_function)
               /\ NoCustomFunctionInApi(codec.api))
        /\ (Populated(codec.data.custom_session_function)
            /\ NoCustomFunctionInApi(codec.api)) =>
              Populated(codec.out.custom_session_function)

\* C12: in every tracked state, however reached (Create, Read, Update, Import), the id
\* is namespace + "/" + name
C12_IdIsNamespaceSlashName ==
    tfstate.tracked =>
        tfstate.data.id =
            TFVal(ValueString(tfstate.data.namespace) \o "/" \o ValueString(tfstate.data.name))

\* C13: no Read or Update changes the namespace, name or id of a tracked resource, and
\* an Update is only ever applied with the namespace and name the state already has (a
\* change of either is planned as a replacement)
C13_IdentityImmutable ==
    [][(op'.name \in {"Read", "Update"} /\ tfstate.tracked /\ tfstate'.tracked) =>
        /\ tfstate'.data.namespace = tfstate.data.namespace
        /\ tfstate'.data.name = tfstate.data.name
        /\ tfstate'.data.id = tfstate.data.id
        /\ op'.name = "Update" =>
            /\ op'.config.namespace = tfstate.data.namespace
            /\ op'.config.name = tfstate.data.name]_vars

C13_UpdateAppliedReached ==
    /\ op.name = "Update"
    /\ calls # <<>>
    /\ calls[1].err = ErrNone
    /\ diags = {}
    /\ tfstate.tracked
    /\ tfstate.data.name = TFVal("b")
    /\ tfstate.data.id = TFVal("ns/b")

\* The remote calls among the calls of an operation, in order
RemoteCalls(cs) == SelectSeq(cs, LAMBDA c : c.api # "time.Sleep")

WriteCalls == {"CreateMatchPoolShort", "CreateRuleSetShort",
               "AdminCreateConfigurationTemplateV1Short"}
DetailCalls == {"MatchPoolDetailsShort", "RuleSetDetailsShort",
                "AdminGetConfigurationTemplateV1Short"}

\* The handler was invoked: the configuration passed the schema's validators
Invoked ==
    /\ op.name \in {"Create", "Read", "Update", "Delete"}
    /\ (rkind = "session_template" /\ op.name \in {"Create", "Update"}) =>
            ValidateSessionTemplateConfig(op.config) = {}

\* No call follows a failed call, and a Create's calls are one write, then at most one
\* detail read issued after the write succeeded
NoRetry ==
    LET made == RemoteCalls(calls)
    IN /\ \A i \in DOMAIN made : made[i].err # ErrNone => i = Len(made)
       /\ op.name = "Create" =>
            /\ Len(made) <= 2
            /\ Len(made) >= 1 => made[1].api \in WriteCalls
            /\ Len(made) = 2 => made[2].api \in DetailCalls
       /\ op.name # "Create" => Len(made) <= 1

\* C14 as stated: Read, Update and Delete issue exactly one remote call, Create exactly
\* one write call and then at most one detail read; nothing is re-issued after a failure
C14_ExactlyOneCall ==
    Invoked =>
        /\ NoRetry
        /\ Len(RemoteCalls(calls)) >= 1

\* C14, amended: Read and Delete issue exactly one remote call; Update and Create issue
\* none when the plan cannot be encoded, and then report an error, otherwise Update
\* issues exactly one call and Create exactly one write call and then at most one detail
\* read; nothing is re-issued after a failure
C14_AtMostOneCallEach ==
    Invoked =>
        /\ NoRetry
        /\ op.name \in {"Read", "Delete"} => Len(RemoteCalls(calls)) = 1
        /\ Len(RemoteCalls(calls)) = 0 =>
            /\ rkind \in {"match_ruleset", "session_template"}
            /\ diags # {}
            /\ \E kind \in {"match ruleset", "session template", "session template config"} :
                diags = {"Error when converting our internal state to an AccelByte API " \o kind}

C14_CreateWithReadReached ==
    /\ rkind = "match_ruleset"
    /\ op.name = "Create"
    /\ Len(RemoteCalls(calls)) = 2
    /\ calls[1].err = ErrNone
    /\ calls[2].err # ErrNone

\* C15: on the match pool, a successful create call is followed by one wait of 20
\* seconds and then the detail read, and a successful delete call by one wait of 20
\* seconds and nothing else; a failed call is followed by no wait
C15_FixedDelayAfterWrite ==
    (rkind = "match_pool" /\ op.name \in {"Create", "Delete"}) =>
        IF calls[1].err = ErrNone
        THEN /\ calls[2] = [api |-> "time.Sleep", seconds |-> 20]
             /\ Len(SelectSeq(calls, LAMBDA c : c.api = "time.Sleep")) = 1
             /\ IF op.name = "Create"
                THEN Len(calls) = 3 /\ calls[3].api = "MatchPoolDetailsShort"
                ELSE Len(calls) = 2
        ELSE Len(calls) = 1

C15_DelayedReadReached ==
    /\ rkind = "match_pool"
    /\ op.name = "Create"
    /\ Len(calls) = 3
    /\ calls[2].api = "time.Sleep"
    /\ calls[2].seconds = CACHE_INVALIDATION_DELAY_SECONDS
    /\ calls[3].err = ErrNone
    /\ tfstate.tracked

\* The six flags of a custom_session_function object, in the order of their bits
FlagsOf(customSessionFunction) ==
    LET m == customSessionFunction.v
    IN <<ValueBool(m.on_session_created), ValueBool(m.on_session_updated),
         ValueBool(m.on_session_deleted), ValueBool(m.on_party_created),
         ValueBool(m.on_party_updated), ValueBool(m.on_party_deleted)>>

RECURSIVE FlagBits(_, _)
\* The integer whose bit i - 1 is set exactly when flags[i] is, for the flags from i on
FlagBits(flags, i) ==
    IF i > Len(flags) THEN 0
    ELSE (IF flags[i] THEN 1 ELSE 0) + 2 * FlagBits(flags, i + 1)

\* C16: the six flags are encoded with the bits 1, 2, 4, 8, 16, 32 in the order
\* on_session_created .. on_party_deleted, decoding the encoded integer gives back the
\* six flags, for all 64 combinations, and on_party_created alone encodes as 8
C16_FlagsRoundTrip ==
    (codec.fn = "CustomSessionFunctionFromApi") =>
        /\ codec.api.v.FunctionFlag = GoPtr(FlagBits(FlagsOf(codec.input), 1))
        /\ Populated(codec.out)
        /\ FlagsOf(codec.out) = FlagsOf(codec.input)
        /\ FlagsOf(codec.input) = <<FALSE, FALSE, FALSE, TRUE, FALSE, FALSE>> =>
              codec.api.v.FunctionFlag = GoPtr(8)

C16_PartyCreatedReached ==
    /\ codec.fn = "CustomSessionFunctionFromApi"
    /\ codec.api.v.FunctionFlag = GoPtr(8)
    /\ FlagsOf(codec.out) = <<FALSE, FALSE, FALSE, TRUE, FALSE, FALSE>>

\* C17: when custom_session_function is present in a configuration that passes
\* validation, one of its six flags is true, and the bit-field sent to the API for it is
\* not 0
C17_SomeFlagSet ==
    (/\ rkind = "session_template"
     /\ op.name \in {"Create", "Update"}
     /\ ValidateSessionTemplateConfig(op.config) = {}
     /\ ~IsNull(op.config.custom_session_function)) =>
        /\ TRUE \in {FlagsOf(op.config.custom_session_function)[i] : i \in 1..6}
        /\ calls # <<>> =>
              /\ ~IsNil(calls[1].body.GrpcSessionConfig)
              /\ calls[1].body.GrpcSessionConfig.v.FunctionFlag # GoPtr(0)

\* The decoders, and the JSON-blob attribute of a model
Decoders == {"updateFromApiMatchPool", "updateFromApiMatchRuleSet",
             "updateFromApiSessionTemplate"}
JsonBlob(data) ==
    IF rkind = "match_ruleset" THEN data.configuration ELSE data.custom_attributes

\* A plan was encoded and the request decoded over it
PlanRoundTrip ==
    /\ codec.fn \in Decoders
    /\ codec.origin = "plan"
    /\ codec.hops = 2
    /\ ~codec.panic

\* C18: for each resource kind and every declared state x allowed by the schema,
\* decoding the request that encoding x produced restores every field of x (a computed
\* attribute the plan leaves unknown is restored as absent)
C18_RoundTripRestoresAll ==
    (PlanRoundTrip
     /\ (rkind = "session_template" => PopulatedVariants(codec.input) <= 1)) =>
        \A f \in DOMAIN codec.input :
            codec.out[f] = IF IsUnknown(codec.input[f]) THEN TFNull ELSE codec.input[f]

\* C19: a text that parses as JSON (object, array, scalar, null) is encoded without
\* error, and the text the decode writes for the parsed value parses to a value equal
\* to the parse of the original text
C19_JsonRoundTrip ==
    (rkind \in {"match_ruleset", "session_template"} /\ codec.fn \notin {"idle"}) =>
        /\ (/\ codec.fn \in {"toApiMatchRuleSet", "toApiSessionTemplate"}
            /\ ValueString(JsonBlob(codec.data)) \in JsonValidTexts) => ~codec.err
        /\ PlanRoundTrip =>
            /\ ~JsonUnmarshal(ValueString(JsonBlob(codec.out))).err
            /\ JsonUnmarshal(ValueString(JsonBlob(codec.out))).v =
                    JsonUnmarshal(ValueString(JsonBlob(codec.input))).v

C19_ReorderedObjectReached ==
    /\ rkind = "match_ruleset"
    /\ PlanRoundTrip
    /\ codec.input.configuration = TFVal("{\"b\":2,\"a\":1}")
    /\ codec.out.configuration = TFVal("{\"a\":1,\"b\":2}")

\* The diagnostics the four handlers add when the plan cannot be encoded
EncodingErrors ==
    {"Error when converting our internal state to an AccelByte API match ruleset",
     "Error when converting our internal state to an AccelByte API session template",
     "Error when converting our internal state to an AccelByte API session template config"}

\* The configuration holds a JSON-blob attribute whose text is not valid JSON
InvalidJsonBlob(config) ==
    /\ ~IsNull(JsonBlob(config))
    /\ JsonUnmarshal(ValueString(JsonBlob(config))).err

\* C20: a Create or an Update of a match ruleset or of a session template whose
\* JSON-blob attribute holds text that is not valid JSON reports an encoding error,
\* makes no remote call, and leaves the state and the remote entity as they were
C20_InvalidJsonStopsBeforeCall ==
    [][(/\ rkind \in {"match_ruleset", "session_template"}
        /\ op'.name \in {"Create", "Update"}
        /\ InvalidJsonBlob(op'.config)
        /\ (rkind = "session_template" => ValidateSessionTemplateConfig(op'.config) = {}))
       => /\ diags' \subseteq EncodingErrors
          /\ diags' # {}
          /\ calls' = <<>>
          /\ tfstate' = tfstate
          /\ remote' = remote]_vars

C20_InvalidJsonUpdateReached ==
    /\ rkind = "session_template"
    /\ op.name = "Update"
    /\ op.config.custom_attributes = TFVal("{")
    /\ tfstate.tracked
    /\ diags = {"Error when converting our internal state to an AccelByte API session template config"}
    /\ calls = <<>>

\* The list-typed sub-attributes of the nested objects that hold lists
ListSubFields(object) ==
    IF object = "match_function_override"
    THEN {"enrichment", "stat_codes", "validation"}
    ELSE {"requested_regions", "preferred_claim_keys", "fallback_claim_keys"}

\* The nested object with list sub-attributes of the decoded kind
ListObject == IF rkind = "match_pool" THEN "match_function_override" ELSE "ams_server"

\* C24: whenever match_function_override or ams_server is present in a decoded state,
\* each of its list sub-attributes is a list (empty when the response has none),
\* never null
C24_DecodedListsNeverNull ==
    (/\ rkind \in {"match_pool", "session_template"}
     /\ codec.fn \in Decoders
     /\ ~codec.panic
     /\ IsKnown(codec.out[ListObject])) =>
        \A f \in ListSubFields(ListObject) : IsKnown(codec.out[ListObject].v[f])

\* The last handler was a Read that succeeded and kept the resource tracked
ReadSucceeded ==
    /\ op.name = "Read"
    /\ diags = {}
    /\ tfstate.tracked

\* C25: for every kind, a successful Read that follows a successful Read of the same,
\* unchanged remote entity leaves the state exactly as the first Read left it
C25_SecondReadChangesNothing ==
    [][(/\ ReadSucceeded
        /\ op'.name = "Read"
        /\ diags' = {}
        /\ tfstate'.tracked
        /\ remote' = remote) => tfstate' = tfstate]_vars

\* A Read has succeeded on a match pool whose override is kept from the prior state
\* (the decode that depends on the state it writes over), and decoding the entity
\* over that state again gives the same state
C25_ReadOverPriorOverrideReached ==
    /\ rkind = "match_pool"
    /\ ReadSucceeded
    /\ remote.exists
    /\ IsNil(remote.body.MatchFunctionOverride)
    /\ IsKnown(tfstate.data.match_function_override)
    /\ updateFromApiMatchPool(tfstate.data, remote.body) = tfstate.data

\* The plan of the last Create or Update could not be encoded (its JSON-blob attribute
\* does not parse)
EncodingFailed ==
    /\ rkind \in {"match_ruleset", "session_template"}
    /\ op.name \in {"Create", "Update"}
    /\ Invoked
    /\ JsonUnmarshal(ValueString(JsonBlob(op.config))).err

\* The last handler was a Read whose fetch reported not found
ReadNotFound ==
    /\ op.name = "Read"
    /\ \A i \in FailedCalls(calls) : calls[i].err = ErrNotFound

C27_NullAttributesFailEncoding ==
    [][(/\ rkind = "session_template"
        /\ op'.name \in {"Create", "Update"}
        /\ IsNull(op'.config.custom_attributes)
        /\ ValidateSessionTemplateConfig(op'.config) = {})
       => /\ diags' \subseteq EncodingErrors
          /\ diags' # {}
          /\ calls' = <<>>
          /\ tfstate' = tfstate
          /\ remote' = remote]_vars

C27_NullAttributesCreateReached ==
    /\ rkind = "session_template"
    /\ op.name = "Create"
    /\ IsNull(op.config.custom_attributes)
    /\ ValidateSessionTemplateConfig(op.config) = {}
    /\ diags = {"Error when converting our internal state to an AccelByte API session template"}
    /\ calls = <<>>
    /\ ~tfstate.tracked

\* The step is a Delete whose call reported not found
DeleteNotFoundStep ==
    /\ op'.name = "Delete"
    /\ Len(calls') >= 1
    /\ calls'[1].err = ErrNotFound

\* The entity the state tracks is no longer in the backend
RemovedRemotely ==
    /\ tfstate.tracked
    /\ ~Found(ValueString(tfstate.data.namespace), ValueString(tfstate.data.name))

\* C28: a Delete whose call reports not found ends with an error and keeps the state;
\* a tracked resource whose entity is gone from the backend leaves the state only by a
\* Read that observes not found
C28_DeleteNotFoundKeepsState ==
    [][/\ DeleteNotFoundStep =>
            /\ diags' # {}
            /\ PluginCrash \notin diags'
            /\ tfstate' = tfstate
            /\ tfstate'.tracked
       /\ (RemovedRemotely /\ remote' = remote /\ ~tfstate'.tracked) =>
            /\ op'.name = "Read"
            /\ calls'[1].err = ErrNotFound]_vars

C28_DeleteNotFoundReached ==
    /\ rkind = "session_template"
    /\ op.name = "Delete"
    /\ Len(calls) = 1
    /\ calls[1].err = ErrNotFound
    /\ diags = {"Error when deleting session template via AccelByte API"}
    /\ tfstate.tracked
    /\ ~remote.exists

\* The response lacks a field the decoder of its kind dereferences
LacksRequiredField(response) ==
    CASE rkind = "match_pool" -> updateFromApiMatchPoolPanics(response)
      [] rkind = "match_ruleset" -> updateFromApiMatchRuleSetPanics(response)
      [] rkind = "session_template" -> updateFromApiSessionTemplatePanics(response)

\* The step is a Create, Read or Update whose calls all succeeded and whose response
\* lacks a required field
DecodesFaultyResponse ==
    /\ op'.name \in {"Create", "Read", "Update"}
    /\ calls' # <<>>
    /\ FailedCalls(calls') = {}
    /\ remote'.exists
    /\ LacksRequiredField(remote'.body)

\* C29: when the response lacks a field documented as always present, the decode fails
\* (the dereference of the nil field ends the handler) and the state is left as it
\* was: no state is stored with the missing field replaced by a default
C29_MissingFieldStoresNoState ==
    [][DecodesFaultyResponse =>
            /\ tfstate' = tfstate
            /\ diags' = {PluginCrash}]_vars

C29_MissingRuleSetReached ==
    /\ rkind = "match_pool"
    /\ op.name = "Read"
    /\ FailedCalls(calls) = {}
    /\ remote.exists
    /\ IsNil(remote.body.RuleSet)
    /\ diags = {PluginCrash}
    /\ tfstate.tracked
    /\ IsKnown(tfstate.data.rule_set)

\* Some client is available: to the framework for handing out, or in a component
ClientAvailable ==
    \/ ~IsNil(provider.ResourceData)
    \/ ~IsNil(provider.DataSourceData)
    \/ \E c \in Resources \cup DataSources : ~IsNil(provider.client[c])

\* C21: the provider logs in at most once, never again after the login has returned;
\* a client is available to a resource or a data source only when that one login has
\* been made and has succeeded; when the login fails Configure ends with the login
\* error and no client is available
C21_LoginBeforeClients ==
    /\ provider.logins <= 1
    /\ ClientAvailable => (provider.logins = 1 /\ provider.token)
    /\ (provider.logins = 1 /\ ~provider.token) => ~ClientAvailable
    /\ (op.name = "Configure" /\ provider.logins = 1) =>
            /\ Len(calls) = 1
            /\ calls[1].api = "LoginUser"
            /\ (calls[1].err # ErrNone <=> diags = {LoginError})
            /\ (calls[1].err = ErrNone <=> diags = {})
            /\ (calls[1].err = ErrNone <=> ClientAvailable)

\* After a successful login every resource and data source has taken its client
C21_AllClientsHandedReached ==
    /\ provider.logins = 1
    /\ provider.token
    /\ \A c \in Resources \cup DataSources :
            provider.client[c] = GoPtr(AccelByteProviderClients[ClientOf(c)])
    /\ provider.config = [s \in Settings |-> TFNull]

\* The settings of the configured provider that resolve to the empty text, and whether
\* the provider block holds a value not yet known
MissingSettings ==
    {s \in Settings : Resolve(provider.config, provider.env, s) = ""}
HasUnknownSetting == \E s \in Settings : IsUnknown(provider.config[s])

UsedByLogin(call, setting) ==
    CASE setting = "base_url" -> call.configRepository.BaseUrl
      [] setting = "iam_client_id" -> call.configRepository.ClientId
      [] setting = "iam_client_secret" -> call.configRepository.ClientSecret
      [] setting = "admin_username" -> call.username
      [] setting = "admin_password" -> call.password

\* C23: for each of the five settings the value used is the one declared in the
\* provider block whenever one is declared, and the value of the environment variable
\* only when the setting is not declared
C23_DeclaredValueWins ==
    (op.name = "Configure" /\ ~HasUnknownSetting) =>
        \A s \in Settings :
            LET declared == ~IsNull(provider.config[s])
            IN /\ Len(calls) = 1 =>
                    UsedByLogin(calls[1], s) =
                        IF declared THEN provider.config[s].v ELSE provider.env[s]
               /\ (\E d \in diags : d.path = s) <=>
                    IF declared THEN provider.config[s].v = "" ELSE provider.env[s] = ""

\* A login made with a declared value whose variable is set too, and with a value
\* taken from the environment
C23_MixedSourcesReached ==
    /\ op.name = "Configure"
    /\ Len(calls) = 1
    /\ provider.config["base_url"] = TFVal("cfg")
    /\ provider.env["base_url"] = "env"
    /\ calls[1].configRepository.BaseUrl = "cfg"
    /\ IsNull(provider.config["admin_username"])
    /\ calls[1].username = "env"

\* C30: for the three data sources, a Read whose fetch reports not found ends with the
\* error "Data source not found" and sets no state (the Read of a resource, C2, drops
\* the state without an error on the same response)
C30_DataSourceNotFoundIsError ==
    (/\ op.name = "DataSourceRead"
     /\ calls[1].err = ErrNotFound) =>
        /\ diags = {"Data source not found"}
        /\ dsstate = NoState
        /\ Len(calls) = 1

C30_DataSourceNotFoundReached ==
    /\ rkind = "match_ruleset"
    /\ op.name = "DataSourceRead"
    /\ remote.exists
    /\ remote.name # op.config.name
    /\ calls[1].err = ErrNotFound
    /\ diags = {"Data source not found"}

====
